---- MODULE Spec2Model ----
(***************************************************************************)
(* Model of the UnrealIRCd server-to-server client engine                  *)
(* (ServerToServerClient): the replicated network-state store (users,      *)
(* usersByNick, channels), the SJOIN burst conflict resolver, the channel  *)
(* MODE codec and the public operations that mutate the store.             *)
(*                                                                         *)
(* Representation.  A JavaScript string whose characters the code looks at *)
(* (a mode string, a rank prefix, an SJOIN token) is a sequence of         *)
(* symbols: a symbol is a one-character string, or an atom standing for a  *)
(* run of characters the code never splits (a UID, a ban mask).  A string  *)
(* the code only compares or uses as a key (nickname, channel name, MODE   *)
(* argument) is a TLA+ string.  A JavaScript object map is a function      *)
(* whose DOMAIN is its key set.                                            *)
(*                                                                         *)
(* Object identity.  A Member object is shared by channel.users[nick] and  *)
(* user.memberships[channel]; MODE mutates its prefix in place.  A channel *)
(* entry carries the field "shared": TRUE while the entry and the          *)
(* membership of the user with that uid are the same object, so that an    *)
(* in-place prefix change is seen through both.  A usersByNick entry       *)
(* refers to a User object; "dead" is TRUE when that object is no longer   *)
(* the one filed in users (it was replaced by a later introduction).       *)
(***************************************************************************)
EXTENDS Integers, Sequences, FiniteSets, TLC

VARIABLES
    users,        \* uid -> [nickname, local, usermodes, memberships: channel -> [uid, prefix]]
    usersByNick,  \* nickname -> [uid, dead]
    channels,     \* name -> [timestamp, modes, users, bans, excepts, inviteExcepts]
    writebuffer,  \* _writebuffer: sequence of lines [cmd, arg, crlf]
    crashed,      \* an inbound handler threw: the exception left the 'data' listener
    last,         \* history: the operation applied last, with its inputs
    protoOK,      \* history: no introduction so far reused a live uid or nickname
    steps,        \* history: the number of operations applied so far
    buffer,       \* _buffer: the bytes received and not yet split into lines
    received,     \* history: every byte the socket delivered, in order
    delivered,    \* history: the lines handed to _lineHandler, in order
    blockEOS,     \* _blockEOS: "undefined" until the SERVER line is handled
    events,       \* history: the registered and sync events raised, in order
    options,      \* _options: the credential material given to the constructor
    conn,         \* _socket: "new", "connecting" (tls.connect called), "connected", "closed"
    socketEnded,  \* the writable side of _socket has ended
    socketWrites, \* history: the calls of _socket.write, in order
    destroyed,    \* destroyed
    raised        \* history: the ping and any-command events of the last operation

vars == <<users, usersByNick, channels, writebuffer, crashed, last, protoOK,
          steps, buffer, received, delivered, blockEOS, events, options, conn,
          socketEnded, socketWrites, destroyed, raised>>

----------------------------------------------------------------------------
(* Bounds of the model *)

MaxSteps == 4

MaxTS == 2

----------------------------------------------------------------------------
(* JavaScript object maps and strings *)

EmptyMap == [x \in {} |-> x]

Put(m, k, v) == [x \in (DOMAIN m) \cup {k} |-> IF x = k THEN v ELSE m[x]]

Del(m, k) == [x \in (DOMAIN m) \ {k} |-> m[x]]

Chars(s) == {s[i] : i \in 1..Len(s)}

\* newModes[k] = true on an object whose keys are kept in insertion order
KeysInsert(keys, k) == IF k \in Chars(keys) THEN keys ELSE Append(keys, k)

\* delete newModes[k]
KeysDelete(keys, k) == SelectSeq(keys, LAMBDA x : x # k)

RECURSIVE setKeys(_, _)
\* for (let mode of str) { if (mode == "+") continue; newModes[mode] = true; }
setKeys(keys, str) ==
    IF str = <<>> THEN keys
    ELSE setKeys(IF Head(str) = "+" THEN keys ELSE KeysInsert(keys, Head(str)),
                 Tail(str))

----------------------------------------------------------------------------
(* Identifiers of the model *)

\* options.sid of the client
SID == "999"

\* sources of inbound lines with source.length == 3 (server ids)
SIDs == {"001"}

\* users introduced by the peer (UID) and by the application (registerUser)
RemoteUIDs == {"001AAAAAA"}

LocalUIDs == {"999AAAAAA"}

UIDs == RemoteUIDs \cup LocalUIDs

Nicks == {"a", "b"}

ChannelNames == {"#x"}

----------------------------------------------------------------------------
(* Outbound write queue *)

\* writeRaw(raw): this._writebuffer.push(raw + "\r\n")
writeRaw(S, prefix, cmd, arg) ==
    [S EXCEPT !.wb = Append(@, [prefix |-> prefix, cmd |-> cmd, arg |-> arg,
                               crlf |-> TRUE])]

\* write(message): writeRaw(`:${sid} ${message}`)
write(S, cmd, arg) == writeRaw(S, SID, cmd, arg)

----------------------------------------------------------------------------
(* Object identity of Member and User objects *)

\* the Member objects of user uid stop being the ones the channel entries hold
Unshare(chusers, uid) ==
    [k \in DOMAIN chusers |->
        IF chusers[k].uid = uid THEN [chusers[k] EXCEPT !.shared = FALSE]
        ELSE chusers[k]]

UnshareAll(chans, uid) ==
    [c \in DOMAIN chans |-> [chans[c] EXCEPT !.users = Unshare(@, uid)]]

\* the User object filed under users[uid] is replaced by a new object
Orphan(byNick, uid) ==
    [n \in DOMAIN byNick |->
        IF byNick[n].uid = uid THEN [byNick[n] EXCEPT !.dead = TRUE] ELSE byNick[n]]

\* this.users[user.uid] = user; this.usersByNick[user.nickname] = user;
Introduce(S, uid, user) ==
    LET replaced == uid \in DOMAIN S.users
        byNick == IF replaced THEN Orphan(S.usersByNick, uid) ELSE S.usersByNick
        chans == IF replaced THEN UnshareAll(S.channels, uid) ELSE S.channels
    IN  [S EXCEPT !.users = Put(@, uid, user),
                  !.usersByNick = Put(byNick, user.nickname,
                                      [uid |-> uid, dead |-> FALSE]),
                  !.channels = chans]

----------------------------------------------------------------------------
(* Inbound commands on users: UID, NICK, QUIT *)

\* command === "UID": a User with empty memberships
HandleUID(S, uid, nickname) ==
    Introduce(S, uid, [nickname |-> nickname, local |-> FALSE,
                       usermodes |-> <<"+", "i">>, memberships |-> EmptyMap])

\* variant of the NICK handler without the delete of the old index entry
HandleNICKKeepsOld(S, source, nickname) ==
    IF source \notin DOMAIN S.users THEN [S EXCEPT !.threw = TRUE]
    ELSE [S EXCEPT
            !.usersByNick = Put(@, nickname, [uid |-> source, dead |-> FALSE]),
            !.users = [@ EXCEPT ![source].nickname = nickname]]

\* command === "NICK"; this.users[source].nickname throws on an unknown source
HandleNICK(S, source, nickname) ==
    IF source \notin DOMAIN S.users THEN [S EXCEPT !.threw = TRUE]
    ELSE [S EXCEPT
            !.usersByNick = Put(Del(@, S.users[source].nickname), nickname,
                                [uid |-> source, dead |-> FALSE]),
            !.users = [@ EXCEPT ![source].nickname = nickname]]

\* command === "QUIT"
HandleQUIT(S, source) ==
    IF source \notin DOMAIN S.users THEN [S EXCEPT !.threw = TRUE]
    ELSE [S EXCEPT
            !.usersByNick = Del(@, S.users[source].nickname),
            !.users = Del(@, source),
            !.channels = UnshareAll(@, source)]

----------------------------------------------------------------------------
(* SJOIN: the burst conflict resolver *)

\* characters the regular expression class \w does not match
NonWord == {"+", "%", "@", "~", "*", "&", "\"", "'", "!"}

\* atoms matching [0-9A-Z]{3,}
IdAtoms == UIDs \cup {"002AAAAAA"}

\* i.match(/^([^\w]*)([0-9A-Z]{3,}$)/) || [i, "", i]: <<match[1], match[2]>>.
\* A token that does not match is looked up whole; no uid has that form, so
\* match[2] is then a key absent from users.
NoUid == "?"

matchToken(i) ==
    IF /\ i[Len(i)] \in IdAtoms
       /\ \A k \in 1..(Len(i) - 1) : i[k] \in NonWord
    THEN <<SubSeq(i, 1, Len(i) - 1), i[Len(i)]>>
    ELSE <<<<>>, NoUid>>

\* i.slice(1) of a list token: the mask after the marker character
sliceMask(i) == IF Len(i) = 1 THEN "" ELSE i[2]

\* A channel object that is not yet in the store
NewChannel(timestamp, modes) ==
    [timestamp |-> timestamp, modes |-> modes, users |-> EmptyMap,
     bans |-> <<>>, excepts |-> <<>>, inviteExcepts |-> <<>>]

\* variant of the member installation that leaves the channel's users map alone
installMemberUserSide(U, ch, name, uid, prefix) ==
    [users |-> [U EXCEPT ![uid].memberships =
                    Put(@, name, [uid |-> uid, prefix |-> prefix])],
     channel |-> ch]

\* let membership = {uid, prefix}; channel.users[user.nickname] = membership;
\* user.memberships[name] = membership;
installMember(U, ch, name, uid, prefix) ==
    [users |-> [U EXCEPT ![uid].memberships =
                    Put(@, name, [uid |-> uid, prefix |-> prefix])],
     channel |-> [ch EXCEPT !.users =
                    Put(Unshare(@, uid), U[uid].nickname,
                        [uid |-> uid, prefix |-> prefix, shared |-> TRUE])]]

RECURSIVE sjoinLoop(_, _, _, _, _)
\* for (let i of sjoinbuffer) { ... }: <<users, channel, threw>> after the loop,
\* or at the token whose uid is not in users (user.uid throws)
sjoinLoop(U, ch, name, unsafe, sjoinbuffer) ==
    IF sjoinbuffer = <<>> THEN [users |-> U, channel |-> ch, threw |-> FALSE]
    ELSE
      LET i == Head(sjoinbuffer)
          rest == Tail(sjoinbuffer)
      IN  IF i = <<>> THEN sjoinLoop(U, ch, name, unsafe, rest)
          ELSE IF Head(i) = "&" THEN
            sjoinLoop(U, [ch EXCEPT !.bans = Append(@, sliceMask(i))],
                      name, unsafe, rest)
          ELSE IF Head(i) = "\"" THEN
            sjoinLoop(U, [ch EXCEPT !.excepts = Append(@, sliceMask(i))],
                      name, unsafe, rest)
          ELSE IF Head(i) = "'" THEN
            sjoinLoop(U, [ch EXCEPT !.inviteExcepts = Append(@, sliceMask(i))],
                      name, unsafe, rest)
          ELSE
            LET match == matchToken(i)
                prefix == IF unsafe THEN <<>> ELSE match[1]
                uid == match[2]
            IN  IF uid \notin DOMAIN U
                THEN [users |-> U, channel |-> ch, threw |-> TRUE]
                ELSE LET r == installMember(U, ch, name, uid, prefix)
                     IN  sjoinLoop(r.users, r.channel, name, unsafe, rest)

\* variant of the mode resolution that takes the announced modes at an equal
\* timestamp as well
sjoinModesAnnounced(incumbent, timestamp, modes) ==
    IF timestamp <= incumbent.timestamp THEN modes ELSE incumbent.modes

\* variant of the mode resolution that merges at an older timestamp as well
sjoinModesMerged(incumbent, timestamp, modes) ==
    IF timestamp <= incumbent.timestamp
    THEN setKeys(setKeys(<<>>, modes), incumbent.modes)
    ELSE incumbent.modes

\* the mode string of the channel object after the timestamp comparison
sjoinModes(incumbent, timestamp, modes) ==
    IF timestamp = incumbent.timestamp
    THEN setKeys(setKeys(<<>>, modes), incumbent.modes)
    ELSE IF timestamp < incumbent.timestamp THEN modes
    ELSE incumbent.modes

\* variant in which no burst is unsafe
sjoinUnsafeNever(incumbent, timestamp) == FALSE

\* let unsafe: set when the announced timestamp is newer than the incumbent's
sjoinUnsafe(incumbent, timestamp) ==
    ~(timestamp = incumbent.timestamp) /\ ~(timestamp < incumbent.timestamp)

\* variant in which an older burst hands its timestamp to the channel
sjoinTimestampOldest(incumbent, timestamp) ==
    IF timestamp < incumbent.timestamp THEN timestamp ELSE incumbent.timestamp

\* the timestamp of the channel object when the store holds the channel:
\* channel is this.channels[name] and no branch assigns channel.timestamp
sjoinTimestamp(incumbent, timestamp) == incumbent.timestamp

\* command === "SJOIN".  modes is <<>> when the line carries no mode token.
\* An incumbent channel is changed in place, so what was done before a throw
\* stays; a new channel object is stored only when the loop completes.
HandleSJOIN(S, timestamp, name, modes, sjoinbuffer) ==
    LET exists == name \in DOMAIN S.channels
        incumbent == S.channels[name]
        channel == IF exists
                   THEN [incumbent EXCEPT
                            !.modes = sjoinModes(incumbent, timestamp, modes),
                            !.timestamp = sjoinTimestamp(incumbent, timestamp)]
                   ELSE NewChannel(timestamp, modes)
        unsafe == exists /\ sjoinUnsafe(incumbent, timestamp)
        r == sjoinLoop(S.users, channel, name, unsafe, sjoinbuffer)
    IN  [S EXCEPT !.users = r.users,
                  !.channels = IF r.threw /\ ~exists THEN @
                               ELSE Put(@, name, r.channel),
                  !.threw = r.threw]

----------------------------------------------------------------------------
(* PART and KICK *)

\* delete user.memberships[channel];
\* delete this.channels[channel].users[user.nickname];
\* if (Object.keys(this.channels[channel].users).length === 0) delete channel
leaveChannel(S, uid, channel) ==
    IF uid \notin DOMAIN S.users THEN [S EXCEPT !.threw = TRUE]
    ELSE
      LET U == [S.users EXCEPT ![uid].memberships = Del(@, channel)]
      IN  IF channel \notin DOMAIN S.channels
          THEN [S EXCEPT !.users = U, !.threw = TRUE]
          ELSE
            LET chusers == Del(Unshare(S.channels[channel].users, uid),
                               S.users[uid].nickname)
            IN  [S EXCEPT !.users = U,
                          !.channels =
                              IF Cardinality(DOMAIN chusers) = 0
                              THEN Del(@, channel)
                              ELSE [@ EXCEPT ![channel].users = chusers]]

\* command === "PART": the source leaves
HandlePART(S, source, channel) == leaveChannel(S, source, channel)

\* command === "KICK": the target leaves
HandleKICK(S, source, channel, target) == leaveChannel(S, target, channel)

\* command === "KILL": the event is raised, the store is not touched
HandleKILL(S, source, target) == S

\* command === "SAJOIN": user.local throws on an unknown target; a target
\* that is not local ends the handler.  The channel object built for a name
\* that is not in the store is not put there.
HandleSAJOIN(S, target, channel) ==
    IF target \notin DOMAIN S.users THEN [S EXCEPT !.threw = TRUE]
    ELSE IF ~S.users[target].local THEN [S EXCEPT !.early = TRUE]
    ELSE
      LET exists == channel \in DOMAIN S.channels
          prefix == IF exists THEN <<>> ELSE <<"@">>
          U == [S.users EXCEPT ![target].memberships =
                   Put(@, channel, [uid |-> target, prefix |-> prefix])]
          S1 == [S EXCEPT
                   !.users = U,
                   !.channels =
                       IF exists
                       THEN [@ EXCEPT ![channel].users =
                               Put(Unshare(@, target), S.users[target].nickname,
                                   [uid |-> target, prefix |-> prefix,
                                    shared |-> TRUE])]
                       ELSE @]
      IN  write(S1, "SJOIN", channel)

\* command === "SAPART": as PART for the target, then the PART line is queued
HandleSAPART(S, target, channel) ==
    LET S1 == leaveChannel(S, target, channel)
    IN  IF S1.threw THEN S1 ELSE writeRaw(S1, target, "PART", channel)

----------------------------------------------------------------------------
(* Channel MODE: the mode codec *)

ModeToPrefix == [v |-> "+", h |-> "%", o |-> "@", a |-> "~", q |-> "*"]

RankModes == {"v", "h", "o", "a", "q"}

ListModes == {"b", "e", "I"}

\* index of the first "-" of str at or after position k, or Len(str) + 1
RECURSIVE dashFrom(_, _)
dashFrom(str, k) ==
    IF k > Len(str) \/ str[k] = "-" THEN k ELSE dashFrom(str, k + 1)

\* modes.split("-")[0].slice(1)
addPart(modes) == SubSeq(modes, 2, dashFrom(modes, 1) - 1)

\* modes.split("-")[1] || ""
removePart(modes) ==
    LET d == dashFrom(modes, 1)
    IN  SubSeq(modes, d + 1, dashFrom(modes, d + 1) - 1)

\* prefix.replace(symbol, ""): the first occurrence is dropped
RECURSIVE replaceFirst(_, _)
replaceFirst(prefix, symbol) ==
    IF prefix = <<>> THEN <<>>
    ELSE IF Head(prefix) = symbol THEN Tail(prefix)
    ELSE <<Head(prefix)>> \o replaceFirst(Tail(prefix), symbol)

\* channelObj.users[arg].prefix = prefix, seen through the user's membership
\* as well when the entry and the membership are one Member object
setPrefix(st, target, arg, prefix) ==
    LET entry == st.channel.users[arg]
    IN  [st EXCEPT
            !.channel.users[arg].prefix = prefix,
            !.users = IF entry.shared
                      THEN [@ EXCEPT ![entry.uid].memberships[target].prefix = prefix]
                      ELSE @]

\* one letter of the add part (lines 679-703)
addMode(st, target, mode) ==
    IF mode = "+" THEN st
    ELSE IF mode \in RankModes THEN
        IF st.args = <<>> THEN st
        ELSE LET arg == Head(st.args)
                 st1 == [st EXCEPT !.args = Tail(@)]
             IN  IF arg \notin DOMAIN st.channel.users
                 THEN [st1 EXCEPT !.threw = TRUE]
                 ELSE setPrefix(st1, target, arg,
                                Append(st.channel.users[arg].prefix,
                                       ModeToPrefix[mode]))
    ELSE IF mode \in ListModes THEN
        IF st.args = <<>> THEN st
        ELSE LET arg == Head(st.args)
                 st1 == [st EXCEPT !.args = Tail(@)]
             IN  CASE mode = "b" -> [st1 EXCEPT !.channel.bans = Append(@, arg)]
                   [] mode = "e" -> [st1 EXCEPT !.channel.excepts = Append(@, arg)]
                   [] mode = "I" ->
                        [st1 EXCEPT !.channel.inviteExcepts = Append(@, arg)]
    ELSE [st EXCEPT !.newModes = KeysInsert(@, mode)]

\* variant of the remove step that consumes the argument of a list mode and
\* leaves the list as it is
removeModeKeepsList(st, target, mode) ==
    IF mode \in ListModes
    THEN [st EXCEPT !.args = IF @ = <<>> THEN @ ELSE Tail(@)]
    ELSE [st EXCEPT !.newModes = KeysDelete(@, mode)]

\* one letter of the remove part (lines 707-730); a list mode without an
\* argument filters on undefined and keeps every entry
removeMode(st, target, mode) ==
    IF mode = "+" THEN st
    ELSE IF mode \in RankModes THEN
        IF st.args = <<>> THEN st
        ELSE LET arg == Head(st.args)
                 st1 == [st EXCEPT !.args = Tail(@)]
             IN  IF arg \notin DOMAIN st.channel.users
                 THEN [st1 EXCEPT !.threw = TRUE]
                 ELSE setPrefix(st1, target, arg,
                                replaceFirst(st.channel.users[arg].prefix,
                                             ModeToPrefix[mode]))
    ELSE IF mode \in ListModes THEN
        IF st.args = <<>> THEN st
        ELSE LET arg == Head(st.args)
                 st1 == [st EXCEPT !.args = Tail(@)]
                 keep(list) == SelectSeq(list, LAMBDA x : x # arg)
             IN  CASE mode = "b" -> [st1 EXCEPT !.channel.bans = keep(@)]
                   [] mode = "e" -> [st1 EXCEPT !.channel.excepts = keep(@)]
                   [] mode = "I" -> [st1 EXCEPT !.channel.inviteExcepts = keep(@)]
    ELSE [st EXCEPT !.newModes = KeysDelete(@, mode)]

RECURSIVE addLoop(_, _, _)
addLoop(st, target, letters) ==
    IF letters = <<>> \/ st.threw THEN st
    ELSE addLoop(addMode(st, target, Head(letters)), target, Tail(letters))

RECURSIVE removeLoop(_, _, _)
removeLoop(st, target, letters) ==
    IF letters = <<>> \/ st.threw THEN st
    ELSE removeLoop(removeMode(st, target, Head(letters)), target, Tail(letters))

\* let newModes = {}; for (let mode of modes) { if (mode == "+") continue;
\* newModes[mode] = true; }   (lines 670-675: the keys the flag set starts from)
initialModes(incumbentModes, modes) == setKeys(<<>>, modes)

\* if (source.length == 3) args.pop(): the sources of three characters are
\* the server ids
popTimestamp(source, args) ==
    IF source \in SIDs \cup {SID} /\ args # <<>> THEN SubSeq(args, 1, Len(args) - 1) ELSE args

\* command === "MODE".  channelObj.modes throws when the target is not a
\* stored channel.  The channel object is changed in place: what the loops
\* did before a throw stays, the mode string is then not rewritten.
HandleMODE(S, source, target, modes, args) ==
    IF target \notin DOMAIN S.channels THEN [S EXCEPT !.threw = TRUE]
    ELSE
      LET channelObj == S.channels[target]
          st0 == [users |-> S.users, channel |-> channelObj,
                  args |-> popTimestamp(source, args),
                  newModes |-> initialModes(channelObj.modes, modes),
                  threw |-> FALSE]
          st1 == addLoop(st0, target, addPart(modes))
          st2 == removeLoop(st1, target, removePart(modes))
          final == IF st2.threw THEN st2.channel
                   ELSE [st2.channel EXCEPT !.modes = <<"+">> \o st2.newModes]
      IN  [S EXCEPT !.users = st2.users,
                    !.channels = Put(@, target, final),
                    !.threw = st2.threw]

----------------------------------------------------------------------------
(* Public operations: registerUser, sjoinToChannel *)

RECURSIVE burstMemberships(_, _)
\* for (let name in user.memberships) { ...; this.write("SJOIN ...") }: the
\* channel object built for an unknown name is not put in the store
burstMemberships(S, names) ==
    IF names = {} THEN S
    ELSE LET name == CHOOSE n \in names : TRUE
         IN  burstMemberships(write(S, "SJOIN", name), names \ {name})

\* registerUser(user, noSJoin): the user object of the application is filed
\* as it is, with the memberships it carries
registerUserOp(S, uid, user, noSJoin) ==
    LET S1 == Introduce(write(S, "UID", uid), uid, user)
    IN  IF noSJoin THEN S1 ELSE burstMemberships(S1, DOMAIN user.memberships)

RECURSIVE sjoinMembersUnchecked(_, _, _, _)
\* variant of the member loop without the test for an existing membership
sjoinMembersUnchecked(U, ch, name, members) ==
    IF members = <<>> THEN [users |-> U, channel |-> ch, threw |-> FALSE]
    ELSE
      LET member == Head(members)
      IN  IF member.uid \notin DOMAIN U
          THEN [users |-> U, channel |-> ch, threw |-> TRUE]
          ELSE sjoinMembersUnchecked(
                 [U EXCEPT ![member.uid].memberships = Put(@, name, member)],
                 [ch EXCEPT !.users =
                     Put(@, U[member.uid].nickname,
                         [uid |-> member.uid, prefix |-> member.prefix,
                          shared |-> TRUE])],
                 name, Tail(members))

RECURSIVE sjoinMembers(_, _, _, _)
\* members.forEach(...): throws on a member that is not registered or that
\* already has a membership in the channel; what was done before stays
sjoinMembers(U, ch, name, members) ==
    IF members = <<>> THEN [users |-> U, channel |-> ch, threw |-> FALSE]
    ELSE
      LET member == Head(members)
      IN  IF member.uid \notin DOMAIN U
          THEN [users |-> U, channel |-> ch, threw |-> TRUE]
          ELSE IF name \in DOMAIN U[member.uid].memberships
          THEN [users |-> U, channel |-> ch, threw |-> TRUE]
          ELSE sjoinMembers(
                 [U EXCEPT ![member.uid].memberships = Put(@, name, member)],
                 [ch EXCEPT !.users =
                     Put(@, U[member.uid].nickname,
                         [uid |-> member.uid, prefix |-> member.prefix,
                          shared |-> TRUE])],
                 name, Tail(members))

\* sjoinToChannel(channel, ...members).  channel is the object the caller
\* passes; isStored says that it is the object this.channels[name] holds.
\* The members are put on the passed object: the store sees them only when
\* the passed object is (or becomes, line 904) the stored one.
sjoinToChannelOp(S, name, channel, isStored, members) ==
    LET absent == name \notin DOMAIN S.channels
        r == sjoinMembers(S.users, channel, name, members)
        S1 == [S EXCEPT !.users = r.users,
                        !.channels = IF absent \/ isStored
                                     THEN Put(@, name, r.channel) ELSE @,
                        !.threw = r.threw]
    IN  IF r.threw THEN S1 ELSE write(S1, "SJOIN", name)

----------------------------------------------------------------------------
(* The handshake: SERVER, NETINFO and endOfSync.  The link information     *)
(* NETINFO stores is not part of the model.                                *)

\* endOfSync(): this.write("EOS"); this.writeRaw("NETINFO ...")
endOfSyncOp(S) == writeRaw(write(S, "EOS", ""), "", "NETINFO", "")

\* variant of the NETINFO handler that always replies
HandleNETINFOAlways(S, block) == endOfSyncOp(S)

\* parts[0] === "NETINFO": if (!this._blockEOS) this.endOfSync();
HandleNETINFO(S, block) == IF block # "true" THEN endOfSyncOp(S) ELSE S

\* parts[0] === "SERVER": this._blockEOS = this.onRegistered() == true;
\* returned is what the application's callback returned
HandleSERVER(returned) == IF returned = "true" THEN "true" ELSE "false"

----------------------------------------------------------------------------
(* The framer: _dataHandler.  A chunk is a sequence of bytes; CR and LF    *)
(* are the one-character strings "\r" and "\n".                            *)

CR == "\r"

LF == "\n"

\* str.split("\r\n") from position k on, cur being the segment under way:
\* one segment more than there are terminators
RECURSIVE splitFrom(_, _, _)
splitFrom(str, k, cur) ==
    IF k > Len(str) THEN <<cur>>
    ELSE IF str[k] = CR /\ k < Len(str) /\ str[k + 1] = LF
    THEN <<cur>> \o splitFrom(str, k + 2, <<>>)
    ELSE splitFrom(str, k + 1, Append(cur, str[k]))

splitCRLF(str) == splitFrom(str, 1, <<>>)

\* variant of the framer that hands every segment to _lineHandler at once,
\* the unfinished one included, and carries nothing over
dataHandlerEager(buf, data) ==
    [buffer |-> <<>>, lines |-> splitCRLF(buf \o data)]

\* _dataHandler(data): <<_buffer, lines handed to _lineHandler>>.  When the
\* last segment is empty the buffer is cleared and the segment stays in
\* lines; otherwise lines.pop() moves it to the buffer.
dataHandler(buf, data) ==
    LET joined == buf \o data
        lines == splitCRLF(joined)
    IN  IF Len(lines) > 1
        THEN IF lines[Len(lines)] = <<>>
             THEN [buffer |-> <<>>, lines |-> lines]
             ELSE [buffer |-> lines[Len(lines)],
                   lines |-> SubSeq(lines, 1, Len(lines) - 1)]
        ELSE [buffer |-> joined, lines |-> <<>>]

----------------------------------------------------------------------------
(* The session: keep-alive, user modes, connect, the writer task and       *)
(* disconnect.                                                             *)

\* variant of the keep-alive that queues no reply
HandlePINGSilent(S, token) == S

\* parts[0] === "PING": this._writebuffer.unshift(`PONG ${parts[1]}`); the
\* entry is put in front of the queue as it is, without a terminator
HandlePING(S, token) ==
    [S EXCEPT !.wb = <<[prefix |-> "", cmd |-> "PONG", arg |-> token,
                        crlf |-> FALSE]>> \o @]

RECURSIVE umodeLoop(_, _, _)
\* let add = true; for (let mode of modes) { "+" sets add, "-" clears it,
\* any other character is added to or deleted from newModes }
umodeLoop(keys, modes, add) ==
    IF modes = <<>> THEN keys
    ELSE IF Head(modes) = "+" THEN umodeLoop(keys, Tail(modes), TRUE)
    ELSE IF Head(modes) = "-" THEN umodeLoop(keys, Tail(modes), FALSE)
    ELSE umodeLoop(IF add THEN KeysInsert(keys, Head(modes))
                   ELSE KeysDelete(keys, Head(modes)),
                   Tail(modes), add)

\* command === "UMODE2".  The sources are uids: user.usermodes throws when
\* the uid is not stored.
HandleUMODE2(S, source, modes) ==
    IF source \notin DOMAIN S.users THEN [S EXCEPT !.threw = TRUE]
    ELSE [S EXCEPT !.users[source].usermodes =
                 <<"+">> \o umodeLoop(setKeys(<<>>, @), modes, TRUE)]

\* the sets of credential material an application may construct the client
\* with
OptionSets ==
    [authMethod : {"pass", "spkifp"}, password : BOOLEAN, keyPath : BOOLEAN,
     certPath : BOOLEAN]

\* variant of connect() that opens the transport whatever the options hold
connectErrorNever(isDestroyed, o) == ""

\* connect(): the error thrown before tls.connect is called, "" when none
connectError(isDestroyed, o) ==
    IF isDestroyed THEN "Client is destroyed"
    ELSE IF o.authMethod = "spkifp" /\ (~o.keyPath \/ ~o.certPath)
    THEN "Key and Cert path required for spkifp authMethod"
    ELSE ""

\* `PASS :${this._options.password}` or `PASS :*`
passLine(S, o) ==
    IF o.authMethod = "pass"
    THEN writeRaw(S, "", "PASS", IF o.password THEN "password" ELSE "undefined")
    ELSE IF o.authMethod = "spkifp" THEN writeRaw(S, "", "PASS", "*")
    ELSE S

\* the callback of tls.connect: the five lines of the handshake are appended
\* to the queue
handshake(S, o) ==
    writeRaw(writeRaw(writeRaw(writeRaw(passLine(S, o),
        "", "PROTOCTL", "NOQUIT"), "", "PROTOCTL", "TS"),
        "", "PROTOCTL", "EAUTH"), "", "SERVER", "hostname")

\* the entries one iteration of the writer takes: splice(0, 64)
WriterBatch == 64

\* variant of the writer that joins the whole queue into one write
writerStepAll(wb, writes, ended) ==
    [wb |-> <<>>,
     writes |-> IF wb = <<>> THEN writes
                ELSE Append(writes, [data |-> wb, ended |-> ended])]

\* variant of the writer that takes its batch from the end of the queue
writerStepNewest(wb, writes, ended) ==
    LET n == IF Len(wb) < WriterBatch THEN Len(wb) ELSE WriterBatch
    IN  [wb |-> SubSeq(wb, 1, Len(wb) - n),
         writes |-> IF n = 0 THEN writes
                    ELSE Append(writes, [data |-> SubSeq(wb, Len(wb) - n + 1, Len(wb)),
                                         ended |-> ended])]

\* one iteration of _startWriter on a queue that holds entries:
\* this._socket.write(this._writebuffer.splice(0, 64).join(""))
writerStep(wb, writes, ended) ==
    LET n == IF Len(wb) < WriterBatch THEN Len(wb) ELSE WriterBatch
    IN  [wb |-> SubSeq(wb, n + 1, Len(wb)),
         writes |-> IF n = 0 THEN writes
                    ELSE Append(writes, [data |-> SubSeq(wb, 1, n),
                                         ended |-> ended])]

\* the waits of the writer in milliseconds: setTimeout(resolve, 100) and
\* setTimeout(resolve, 1)
BackoffBusy == 100

BackoffIdle == 1

\* variant of the wait that is longer when the queue drained to empty
writerBackoffIdleLonger(wb) == IF Len(wb) > 0 THEN BackoffIdle ELSE BackoffBusy

\* the wait after an iteration that left the queue wb:
\* if (this._writebuffer.length > 0) 100 ms, else 1 ms
writerBackoff(wb) == IF Len(wb) > 0 THEN BackoffBusy ELSE BackoffIdle

\* writeRaw called for the lines k..n of the application, in this order
writeRawLines(S, k, n) ==
    [S EXCEPT !.wb = @ \o [i \in 1..(n - k + 1) |->
                              writeRaw([wb |-> <<>>], "", "RAW", k + i - 1).wb[1]]]

\* uid.startsWith(this._options.sid)
startsWithSid(uid) == uid \in LocalUIDs

RECURSIVE quitLines(_, _)
\* .forEach((uid) => this.writeRaw(`:${uid} QUIT :Server Shutting Down.`))
quitLines(S, uids) ==
    IF uids = {} THEN S
    ELSE LET uid == CHOOSE u \in uids : TRUE
         IN  quitLines(writeRaw(S, uid, "QUIT", "Server Shutting Down."),
                       uids \ {uid})

\* disconnect(reason, graceful) up to this._socket.end(): the QUIT lines of
\* the users of this server when graceful, then the SQUIT line, are queued
disconnectLines(S, reason, graceful) ==
    LET S1 == IF graceful
              THEN quitLines(S, {uid \in DOMAIN S.users : startsWithSid(uid)})
              ELSE S
    IN  writeRaw(S1, SID, "SQUIT", reason)

----------------------------------------------------------------------------
(* The engine as a state machine: one action per inbound command and per   *)
(* public operation, applied to the store in arrival order.                *)

\* early: the handler returned from _lineHandler before its last statement
Store == [users |-> users, usersByNick |-> usersByNick, channels |-> channels,
          wb |-> writebuffer, threw |-> FALSE, early |-> FALSE]

\* variant of the handlers without the test of destroyed
unlessDestroyedNever(isDestroyed, old, new) == new

\* if (this.destroyed) return;  the first statement of _dataHandler and of
\* _lineHandler: what the handler would make of old stays old
unlessDestroyed(isDestroyed, old, new) == IF isDestroyed THEN old ELSE new

\* history: the handler of an inbound line ran and threw
Threw(S) == ~destroyed /\ S.threw

\* an exception thrown by an inbound handler leaves the socket's 'data'
\* listener uncaught; one thrown by a public operation goes to the caller
CommitStore(S, inbound) ==
    LET E == IF inbound THEN unlessDestroyed(destroyed, Store, S) ELSE S
    IN  /\ steps < MaxSteps
        /\ steps' = steps + 1
        /\ users' = E.users
        /\ usersByNick' = E.usersByNick
        /\ channels' = E.channels
        /\ writebuffer' = E.wb
        /\ crashed' = (inbound /\ E.threw)
        /\ UNCHANGED <<options, conn, socketEnded, socketWrites, destroyed>>

\* this.onCommand(source, command, ...): the last statement of the branch of
\* _lineHandler for sourced lines, reached when the handler neither threw nor
\* returned
onCommand(S) ==
    IF S.threw \/ S.early THEN <<>> ELSE <<[event |-> "command"]>>

\* a command or operation that touches neither the framer nor the handshake
Commit(S, inbound) ==
    /\ CommitStore(S, inbound)
    /\ raised' = IF inbound THEN unlessDestroyed(destroyed, <<>>, onCommand(S))
                 ELSE <<>>
    /\ UNCHANGED <<buffer, received, delivered, blockEOS, events>>

\* the nickname is held by a user other than uid
NickHeld(uid, nickname) ==
    \E v \in DOMAIN users : v # uid /\ users[v].nickname = nickname

\* the credential material of the options: what is present
DefaultOptions ==
    [authMethod |-> "pass", password |-> TRUE, keyPath |-> FALSE, certPath |-> FALSE]

\* the client as constructed from the options o
InitOptions(o) ==
    /\ options = o
    /\ users = EmptyMap
    /\ usersByNick = EmptyMap
    /\ channels = EmptyMap
    /\ writebuffer = <<>>
    /\ crashed = FALSE
    /\ last = [op |-> "init", threw |-> FALSE]
    /\ protoOK = TRUE
    /\ steps = 0
    /\ buffer = <<>>
    /\ received = <<>>
    /\ delivered = <<>>
    /\ blockEOS = "undefined"
    /\ events = <<>>
    /\ conn = "new"
    /\ socketEnded = FALSE
    /\ socketWrites = <<>>
    /\ destroyed = FALSE
    /\ raised = <<>>

Init == InitOptions(DefaultOptions)

\* history: how the announced timestamp of an SJOIN relates to the store
BurstCase(name, timestamp) ==
    IF name \notin DOMAIN channels THEN "new"
    ELSE IF timestamp = channels[name].timestamp THEN "equal"
    ELSE IF timestamp < channels[name].timestamp THEN "older"
    ELSE "newer"

\* history: the mode string of a channel before the operation
ModesOf(name) ==
    IF name \notin DOMAIN channels THEN <<>> ELSE channels[name].modes

\* history: the three lists of a channel before the operation
ListsOf(name) ==
    IF name \notin DOMAIN channels
    THEN [bans |-> <<>>, excepts |-> <<>>, inviteExcepts |-> <<>>]
    ELSE [bans |-> channels[name].bans, excepts |-> channels[name].excepts,
          inviteExcepts |-> channels[name].inviteExcepts]

\* history: the prefix of every entry of a channel's users map
PrefixesOf(name) ==
    IF name \notin DOMAIN channels THEN EmptyMap
    ELSE [n \in DOMAIN channels[name].users |-> channels[name].users[n].prefix]

\* socket 'data' event.  The lines of this harness match no command: each
\* is handed to _lineHandler, which raises onRaw and changes nothing.
Data(data) ==
    /\ ~crashed
    /\ steps < MaxSteps
    /\ steps' = steps + 1
    /\ LET r == unlessDestroyed(destroyed, [buffer |-> buffer, lines |-> <<>>],
                                dataHandler(buffer, data))
       IN  /\ buffer' = r.buffer
           /\ delivered' = delivered \o r.lines
    /\ received' = received \o data
    /\ last' = [op |-> "data", data |-> data, threw |-> FALSE]
    /\ raised' = <<>>
    /\ UNCHANGED <<users, usersByNick, channels, writebuffer, crashed, protoOK,
                   blockEOS, events, options, conn, socketEnded, socketWrites,
                   destroyed>>

\* inbound NETINFO: after the reply, this.onSync() is called
NETINFO ==
    /\ ~crashed
    /\ CommitStore(HandleNETINFO(Store, blockEOS), TRUE)
    /\ events' = unlessDestroyed(destroyed, events, Append(events, "sync"))
    /\ last' = [op |-> "NETINFO", threw |-> FALSE]
    /\ raised' = <<>>
    /\ UNCHANGED <<protoOK, buffer, received, delivered, blockEOS>>

\* inbound SERVER: onRegistered is raised and its result kept
SERVER(returned) ==
    /\ ~crashed
    /\ CommitStore(Store, TRUE)
    /\ blockEOS' = unlessDestroyed(destroyed, blockEOS, HandleSERVER(returned))
    /\ events' = unlessDestroyed(destroyed, events, Append(events, "registered"))
    /\ last' = [op |-> "SERVER", returned |-> returned, threw |-> FALSE]
    /\ raised' = <<>>
    /\ UNCHANGED <<protoOK, buffer, received, delivered>>

\* public operation endOfSync()
endOfSync ==
    /\ ~crashed
    /\ CommitStore(endOfSyncOp(Store), FALSE)
    /\ last' = [op |-> "endOfSync", threw |-> FALSE]
    /\ raised' = <<>>
    /\ UNCHANGED <<protoOK, buffer, received, delivered, blockEOS, events>>

UID(uid, nickname) ==
    /\ ~crashed
    /\ Commit(HandleUID(Store, uid, nickname), TRUE)
    /\ last' = [op |-> "UID", uid |-> uid, nickname |-> nickname, threw |-> FALSE]
    /\ protoOK' = unlessDestroyed(destroyed, protoOK,
                     protoOK /\ uid \notin DOMAIN users /\ ~NickHeld(uid, nickname))

NICK(source, nickname) ==
    /\ ~crashed
    /\ LET S == HandleNICK(Store, source, nickname)
       IN  /\ Commit(S, TRUE)
           /\ last' = [op |-> "NICK", source |-> source, nickname |-> nickname,
                       threw |-> Threw(S)]
    /\ protoOK' = unlessDestroyed(destroyed, protoOK,
                                  protoOK /\ ~NickHeld(source, nickname))

QUIT(source) ==
    /\ ~crashed
    /\ LET S == HandleQUIT(Store, source)
       IN  /\ Commit(S, TRUE)
           /\ last' = [op |-> "QUIT", source |-> source, threw |-> Threw(S)]
    /\ UNCHANGED protoOK

SJOIN(timestamp, name, modes, sjoinbuffer) ==
    /\ ~crashed
    /\ LET S == HandleSJOIN(Store, timestamp, name, modes, sjoinbuffer)
       IN  /\ Commit(S, TRUE)
           /\ last' = [op |-> "SJOIN", timestamp |-> timestamp, name |-> name,
                       modes |-> modes, sjoinbuffer |-> sjoinbuffer,
                       case |-> BurstCase(name, timestamp),
                       had |-> ModesOf(name), threw |-> Threw(S)]
    /\ UNCHANGED protoOK

PART(source, channel) ==
    /\ ~crashed
    /\ LET S == HandlePART(Store, source, channel)
       IN  /\ Commit(S, TRUE)
           /\ last' = [op |-> "PART", source |-> source, channel |-> channel, threw |-> Threw(S)]
    /\ UNCHANGED protoOK

KICK(source, channel, target) ==
    /\ ~crashed
    /\ LET S == HandleKICK(Store, source, channel, target)
       IN  /\ Commit(S, TRUE)
           /\ last' = [op |-> "KICK", source |-> source, channel |-> channel,
                       target |-> target,
                       threw |-> Threw(S)]
    /\ UNCHANGED protoOK

KILL(source, target) ==
    /\ ~crashed
    /\ Commit(HandleKILL(Store, source, target), TRUE)
    /\ last' = [op |-> "KILL", source |-> source, target |-> target,
                threw |-> FALSE]
    /\ UNCHANGED protoOK

SAJOIN(target, channel) ==
    /\ ~crashed
    /\ LET S == HandleSAJOIN(Store, target, channel)
       IN  /\ Commit(S, TRUE)
           /\ last' = [op |-> "SAJOIN", target |-> target, channel |-> channel, threw |-> Threw(S)]
    /\ UNCHANGED protoOK

SAPART(target, channel) ==
    /\ ~crashed
    /\ LET S == HandleSAPART(Store, target, channel)
       IN  /\ Commit(S, TRUE)
           /\ last' = [op |-> "SAPART", target |-> target, channel |-> channel, threw |-> Threw(S)]
    /\ UNCHANGED protoOK

MODE(source, target, modes, args) ==
    /\ ~crashed
    /\ LET S == HandleMODE(Store, source, target, modes, args)
       IN  /\ Commit(S, TRUE)
           /\ last' = [op |-> "MODE", source |-> source, target |-> target,
                       modes |-> modes, args |-> args,
                       before |-> PrefixesOf(target),
                       lists |-> ListsOf(target), threw |-> Threw(S)]
    /\ UNCHANGED protoOK

registerUser(uid, user, noSJoin) ==
    /\ ~crashed
    /\ Commit(registerUserOp(Store, uid, user, noSJoin), FALSE)
    /\ last' = [op |-> "registerUser", uid |-> uid, user |-> user,
                noSJoin |-> noSJoin, threw |-> FALSE]
    /\ protoOK' = (protoOK /\ uid \notin DOMAIN users
                            /\ ~NickHeld(uid, user.nickname))

sjoinToChannel(name, channel, isStored, members) ==
    /\ ~crashed
    /\ LET S == sjoinToChannelOp(Store, name, channel, isStored, members)
       IN  /\ Commit(S, FALSE)
           /\ last' = [op |-> "sjoinToChannel", name |-> name,
                       isStored |-> isStored, members |-> members,
                       threw |-> S.threw]
    /\ UNCHANGED protoOK

\* inbound PING: the reply is queued and onPing(parts[1]) is raised
PING(token) ==
    /\ ~crashed
    /\ CommitStore(HandlePING(Store, token), TRUE)
    /\ raised' = unlessDestroyed(destroyed, <<>>,
                                 <<[event |-> "ping", token |-> token]>>)
    /\ last' = [op |-> "PING", token |-> token, threw |-> FALSE]
    /\ UNCHANGED <<protoOK, buffer, received, delivered, blockEOS, events>>

UMODE2(source, modes) ==
    /\ ~crashed
    /\ LET S == HandleUMODE2(Store, source, modes)
       IN  /\ Commit(S, TRUE)
           /\ last' = [op |-> "UMODE2", source |-> source, modes |-> modes,
                       threw |-> Threw(S)]
    /\ UNCHANGED protoOK

\* public operation connect(), on a client that has no socket yet or is
\* destroyed: it throws, or tls.connect is called and the socket exists
connect ==
    /\ ~crashed
    /\ conn = "new" \/ destroyed
    /\ steps < MaxSteps
    /\ steps' = steps + 1
    /\ LET err == connectError(destroyed, options)
       IN  /\ conn' = IF err = "" THEN "connecting" ELSE conn
           /\ last' = [op |-> "connect", error |-> err, threw |-> err # ""]
    /\ raised' = <<>>
    /\ UNCHANGED <<users, usersByNick, channels, writebuffer, crashed, protoOK,
                   buffer, received, delivered, blockEOS, events, options,
                   socketEnded, socketWrites, destroyed>>

\* the callback of tls.connect: the handshake is queued, the listeners are
\* attached and _startWriter() runs its first iteration before it waits
Connected ==
    /\ ~crashed
    /\ conn = "connecting"
    /\ steps < MaxSteps
    /\ steps' = steps + 1
    /\ LET S == handshake(Store, options)
           w == writerStep(S.wb, socketWrites, socketEnded)
       IN  /\ writebuffer' = w.wb
           /\ socketWrites' = w.writes
           /\ last' = [op |-> "connected", wait |-> writerBackoff(w.wb),
                       threw |-> FALSE]
    /\ conn' = "connected"
    /\ raised' = <<>>
    /\ UNCHANGED <<users, usersByNick, channels, crashed, protoOK, buffer,
                   received, delivered, blockEOS, events, options, socketEnded,
                   destroyed>>

\* one iteration of the writer task, on the socket as it is by then.  The
\* task runs on its own timers: an iteration is no step of the application
\* or of the peer, and it ends with the queue shorter or empty.
Writer ==
    /\ ~crashed
    /\ conn \in {"connected", "closed"}
    /\ LET w == writerStep(writebuffer, socketWrites, socketEnded)
       IN  /\ writebuffer' = w.wb
           /\ socketWrites' = w.writes
           /\ last' = [op |-> "writer", wait |-> writerBackoff(w.wb),
                       threw |-> FALSE]
    /\ raised' = <<>>
    /\ UNCHANGED <<users, usersByNick, channels, crashed, protoOK, steps,
                   buffer, received, delivered, blockEOS, events, options,
                   conn, socketEnded, destroyed>>

\* public operation disconnect(reason, graceful).  Without a socket
\* this._socket.end() throws after the lines are queued; with one the socket
\* is ended, the client is destroyed and onDisconnected is raised.
disconnect(graceful) ==
    /\ ~crashed
    /\ steps < MaxSteps
    /\ steps' = steps + 1
    /\ writebuffer' = disconnectLines(Store, "reason", graceful).wb
    /\ socketEnded' = (socketEnded \/ conn # "new")
    /\ destroyed' = (destroyed \/ conn # "new")
    /\ events' = IF conn # "new" THEN Append(events, "disconnected") ELSE events
    /\ last' = [op |-> "disconnect", graceful |-> graceful,
                threw |-> (conn = "new")]
    /\ raised' = <<>>
    /\ UNCHANGED <<users, usersByNick, channels, crashed, protoOK, buffer,
                   received, delivered, blockEOS, options, conn, socketWrites>>

\* the socket's 'end' listener: the peer closed the connection.  The socket
\* ends its writable side by itself and the listener raises onDisconnected.
socketEnd ==
    /\ ~crashed
    /\ conn = "connected"
    /\ steps < MaxSteps
    /\ steps' = steps + 1
    /\ conn' = "closed"
    /\ socketEnded' = TRUE
    /\ events' = Append(events, "disconnected")
    /\ last' = [op |-> "end", threw |-> FALSE]
    /\ raised' = <<>>
    /\ UNCHANGED <<users, usersByNick, channels, writebuffer, crashed, protoOK,
                   buffer, received, delivered, blockEOS, options, socketWrites,
                   destroyed>>

\* the socket's 'error' listener: the stream failed and is torn down; the
\* listener raises onDisconnected(err)
socketError ==
    /\ ~crashed
    /\ conn = "connected"
    /\ steps < MaxSteps
    /\ steps' = steps + 1
    /\ conn' = "closed"
    /\ socketEnded' = TRUE
    /\ events' = Append(events, "disconnected")
    /\ last' = [op |-> "error", threw |-> FALSE]
    /\ raised' = <<>>
    /\ UNCHANGED <<users, usersByNick, channels, writebuffer, crashed, protoOK,
                   buffer, received, delivered, blockEOS, options, socketWrites,
                   destroyed>>

\* the application calls writeRaw n times in one run, for its lines 1..n
writeRawMany(n) ==
    /\ ~crashed
    /\ Commit(writeRawLines(Store, 1, n), FALSE)
    /\ last' = [op |-> "writeRaw", count |-> n, threw |-> FALSE]
    /\ UNCHANGED protoOK

\* socket 'data' event whose k-th line makes the application's onRaw
\* listener call disconnect(reason): the lines after it reach _lineHandler
\* on a destroyed client
DataDisconnect(data, k) ==
    /\ ~crashed
    /\ ~destroyed
    /\ conn = "connected"
    /\ steps < MaxSteps
    /\ steps' = steps + 1
    /\ LET r == dataHandler(buffer, data)
       IN  /\ k \in 1..Len(r.lines)
           /\ buffer' = r.buffer
           /\ delivered' = unlessDestroyed(TRUE,
                               delivered \o SubSeq(r.lines, 1, k),
                               delivered \o r.lines)
    /\ received' = received \o data
    /\ writebuffer' = disconnectLines(Store, "reason", FALSE).wb
    /\ socketEnded' = TRUE
    /\ destroyed' = TRUE
    /\ events' = Append(events, "disconnected")
    /\ last' = [op |-> "dataDisconnect", data |-> data, stop |-> k,
                threw |-> FALSE]
    /\ raised' = <<>>
    /\ UNCHANGED <<users, usersByNick, channels, crashed, protoOK, blockEOS,
                   options, conn, socketWrites>>

----------------------------------------------------------------------------
(* Store harness: every command and operation that changes users,          *)
(* usersByNick or channel membership, driven from the constructed client.  *)

\* the user objects the application registers
AppUsers(uid) ==
    {[nickname |-> n, local |-> TRUE, usermodes |-> <<"+">>, memberships |-> ms] :
        n \in Nicks,
        ms \in {EmptyMap} \cup
               {[c \in {name} |-> [uid |-> uid, prefix |-> <<"*">>]] :
                    name \in ChannelNames}}

\* the channel objects the application passes to sjoinToChannel: a new
\* object, or the object the store holds under that name
PassedChannels(name) ==
    {[isStored |-> FALSE, channel |-> NewChannel(1, <<"+", "n", "t">>)]}
    \cup (IF name \in DOMAIN channels
          THEN {[isStored |-> TRUE, channel |-> channels[name]]} ELSE {})

MemberLists ==
    {<<>>, <<[uid |-> "001AAAAAA", prefix |-> <<>>]>>,
     <<[uid |-> "999AAAAAA", prefix |-> <<"@">>]>>,
     <<[uid |-> "999AAAAAA", prefix |-> <<>>],
       [uid |-> "001AAAAAA", prefix |-> <<>>]>>,
     <<[uid |-> "999AAAAAA", prefix |-> <<>>],
       [uid |-> "999AAAAAA", prefix |-> <<"@">>]>>}

StoreBursts ==
    {<<>>, <<<<"001AAAAAA">>>>, <<<<"@", "999AAAAAA">>>>,
     <<<<"999AAAAAA">>, <<"001AAAAAA">>>>,
     <<<<"001AAAAAA">>, <<"002AAAAAA">>>>}

StoreModes == {<<"+", "o">>, <<"-", "o">>}

StoreArgs == {<<"a", "1700">>, <<"b", "1700">>}

Next ==
    \/ \E uid \in RemoteUIDs, nickname \in Nicks : UID(uid, nickname)
    \/ \E source \in UIDs, nickname \in Nicks : NICK(source, nickname)
    \/ \E source \in UIDs : QUIT(source)
    \/ \E timestamp \in 1..MaxTS, name \in ChannelNames,
          sjoinbuffer \in StoreBursts :
          SJOIN(timestamp, name, <<"+", "n", "t">>, sjoinbuffer)
    \/ \E source \in UIDs, channel \in ChannelNames : PART(source, channel)
    \/ \E target \in UIDs, channel \in ChannelNames :
          KICK("001", channel, target)
    \/ \E target \in ChannelNames, modes \in StoreModes, args \in StoreArgs :
          MODE("001", target, modes, args)
    \/ \E target \in UIDs : KILL("001", target)
    \/ \E target \in UIDs, channel \in ChannelNames : SAJOIN(target, channel)
    \/ \E target \in UIDs, channel \in ChannelNames : SAPART(target, channel)
    \/ \E uid \in LocalUIDs, noSJoin \in BOOLEAN :
          \E user \in AppUsers(uid) : registerUser(uid, user, noSJoin)
    \/ \E name \in ChannelNames, members \in MemberLists :
          \E passed \in PassedChannels(name) :
              sjoinToChannel(name, passed.channel, passed.isStored, members)

Spec == Init /\ [][Next]_vars

----------------------------------------------------------------------------
(* Burst harness: SJOIN lines with every relation of the announced         *)
(* timestamp to the stored one, with and without mode token, with member   *)
(* and list tokens, on users introduced by UID and registerUser.           *)

\* mode tokens of SJOIN lines; <<>> is a line without mode token
BurstModes == {<<>>, <<"+", "n">>, <<"+", "t", "n">>}

\* member lists of SJOIN lines: rank prefixes, list tokens, an empty token
\* (two spaces), a uid that was never introduced
BurstBuffers ==
    {<<<<"001AAAAAA">>>>,
     <<<<"@", "999AAAAAA">>>>,
     <<<<"@", "+", "001AAAAAA">>, <<"&", "m1">>, <<"\"", "m2">>, <<"'", "m3">>>>,
     <<<<"+", "999AAAAAA">>, <<>>, <<"@", "001AAAAAA">>>>,
     <<<<"&", "m2">>, <<"002AAAAAA">>>>}

\* the user object the application registers in this harness
BurstUser(nickname) ==
    [nickname |-> nickname, local |-> TRUE, usermodes |-> <<"+">>,
     memberships |-> EmptyMap]

NextBurst ==
    \/ \E uid \in RemoteUIDs : UID(uid, "a")
    \/ \E uid \in LocalUIDs, nickname \in Nicks :
          registerUser(uid, BurstUser(nickname), TRUE)
    \/ \E timestamp \in 1..MaxTS, name \in ChannelNames, modes \in BurstModes,
          sjoinbuffer \in BurstBuffers :
          SJOIN(timestamp, name, modes, sjoinbuffer)
    \/ \E target \in ChannelNames : MODE("001AAAAAA", target, <<"+", "m">>, <<>>)

SpecBurst == Init /\ [][NextBurst]_vars

----------------------------------------------------------------------------
(* Mode harness: channel MODE lines on a channel built by UID and SJOIN.   *)

\* mode tokens of MODE lines: flags, every rank mode, added and removed
ModeTokens ==
    {<<"+", "m">>, <<"-", "n">>, <<"+", "m", "-", "t">>, <<"+", "t", "n">>}
    \cup {<<"+", m>> : m \in RankModes} \cup {<<"-", m>> : m \in RankModes}

\* arguments of MODE lines, before the timestamp a server appends
ModeArgs == {<<>>, <<"a">>}

\* source and arguments: a server appends the timestamp, a user does not
ModeLines ==
    {[source |-> "001", args |-> Append(args, "1700")] : args \in ModeArgs}
    \cup {[source |-> "001AAAAAA", args |-> args] : args \in ModeArgs}

ModeBuffers ==
    {<<<<"001AAAAAA">>>>, <<<<"@", "+", "001AAAAAA">>>>}

NextModes ==
    \/ \E uid \in RemoteUIDs : UID(uid, "a")
    \/ \E name \in ChannelNames, sjoinbuffer \in ModeBuffers :
          SJOIN(1, name, <<"+", "n", "t">>, sjoinbuffer)
    \/ \E target \in ChannelNames, modes \in ModeTokens, line \in ModeLines :
          MODE(line.source, target, modes, line.args)

SpecModes == Init /\ [][NextModes]_vars

----------------------------------------------------------------------------
(* List harness: MODE lines on the three lists of a channel whose lists an *)
(* SJOIN filled, from a user and from a server.                            *)

\* member lists of SJOIN lines: list tokens only, one mask twice
ListBuffers ==
    {<<>>,
     <<<<"&", "x">>, <<"&", "y">>, <<"&", "x">>>>,
     <<<<"\"", "x">>, <<"\"", "y">>, <<"'", "y">>, <<"'", "x">>>>}

\* MODE lines on list modes: a server appends the timestamp
ListLines ==
    {[source |-> "001", modes |-> <<sign, "b">>, args |-> <<mask, "1700">>] :
        sign \in {"+", "-"}, mask \in {"x", "y"}}
    \cup {[source |-> "001AAAAAA", modes |-> <<sign, letter>>, args |-> <<"x">>] :
        sign \in {"+", "-"}, letter \in ListModes}

NextLists ==
    \/ \E name \in ChannelNames, sjoinbuffer \in ListBuffers :
          SJOIN(1, name, <<"+", "n", "t">>, sjoinbuffer)
    \/ \E target \in ChannelNames, line \in ListLines :
          MODE(line.source, target, line.modes, line.args)

SpecLists == Init /\ [][NextLists]_vars

----------------------------------------------------------------------------
(* Handshake harness: SERVER with every result of the registration         *)
(* callback, NETINFO and endOfSync in every order, among other inbound     *)
(* lines and operations, one of which (SAJOIN) queues a line.              *)

\* what onRegistered may return: true, false, or nothing
CallbackResults == {"true", "false", "undefined"}

NextSync ==
    \/ \E returned \in CallbackResults : SERVER(returned)
    \/ NETINFO
    \/ endOfSync
    \/ \E uid \in LocalUIDs : registerUser(uid, BurstUser("a"), TRUE)
    \/ \E target \in LocalUIDs, channel \in ChannelNames : SAJOIN(target, channel)

SpecSync == Init /\ [][NextSync]_vars

----------------------------------------------------------------------------
(* Framer harness: chunks that cut a stream of lines at every place, with  *)
(* lines over the bytes a and b that match no command of _lineHandler.     *)

Chunks ==
    {<<"a">>, <<CR>>, <<LF>>, <<CR, LF>>, <<"a", CR>>, <<LF, "b">>,
     <<"a", CR, LF>>, <<"a", CR, LF, "b">>, <<"a", CR, LF, "b", CR, LF>>}

NextFramer == \E data \in Chunks : Data(data)

SpecFramer == Init /\ [][NextFramer]_vars

----------------------------------------------------------------------------
(* Session harness: a client constructed with every set of credential      *)
(* material, connected, written to, pinged, fed and disconnected in every  *)
(* order.  Inbound lines arrive on a connected socket.                     *)

\* tokens of PING lines
PingTokens == {":t1", ":t2"}

\* chunks of lines that match no command
SessionChunks == {<<"a", CR, LF>>, <<"a", CR, LF, "b", CR, LF>>}

NextSession ==
    \/ connect
    \/ Connected
    \/ Writer
    \/ \E graceful \in BOOLEAN : disconnect(graceful)
    \/ \E uid \in LocalUIDs : registerUser(uid, BurstUser("a"), TRUE)
    \/ conn = "connected" /\ \E token \in PingTokens : PING(token)
    \/ conn = "connected" /\ \E uid \in RemoteUIDs : UID(uid, "b")
    \/ conn = "connected" /\ \E data \in SessionChunks : Data(data)
    \/ \E data \in SessionChunks, k \in 1..2 : DataDisconnect(data, k)
    \/ socketEnd
    \/ socketError

SpecSession == (\E o \in OptionSets : InitOptions(o)) /\ [][NextSession]_vars

----------------------------------------------------------------------------
(* Decoder harness: the same mode tokens, of signs and flag letters in any *)
(* order, in MODE lines on a channel and in UMODE2 lines of a user.        *)

\* the longest mode token, after its leading sign
MaxToken == 3

ModeSymbols == {"+", "-", "m", "n"}

\* a sign, then up to MaxToken signs and flag letters
DecodeTokens ==
    {<<sign>> \o rest : sign \in {"+", "-"},
                        rest \in UNION {[1..n -> ModeSymbols] : n \in 1..MaxToken}}

NextDecode ==
    \/ \E uid \in RemoteUIDs : UID(uid, "a")
    \/ \E name \in ChannelNames :
          SJOIN(1, name, <<"+", "n", "t">>, <<<<"001AAAAAA">>>>)
    \/ \E target \in ChannelNames, modes \in DecodeTokens :
          MODE("001AAAAAA", target, modes, <<>>)
    \/ \E source \in RemoteUIDs, modes \in DecodeTokens : UMODE2(source, modes)

SpecDecode == Init /\ [][NextDecode]_vars

----------------------------------------------------------------------------
(* Writer harness: a connected client whose application queues one line,   *)
(* a full batch or one line more than a batch in one run, with PING lines  *)
(* and iterations of the writer in every order.                            *)

\* the numbers of lines the application queues in one run
RunSizes == {1, WriterBatch, WriterBatch + 1}

NextWriter ==
    \/ connect
    \/ Connected
    \/ Writer
    \/ \E n \in RunSizes : writeRawMany(n)
    \/ conn = "connected" /\ \E token \in PingTokens : PING(token)

SpecWriter == Init /\ [][NextWriter]_vars

----------------------------------------------------------------------------
(* Well-formedness of the model's own bookkeeping *)

\* a channel entry marked shared is the membership object of its user
SharedOK ==
    \A c \in DOMAIN channels : \A n \in DOMAIN channels[c].users :
        LET e == channels[c].users[n]
        IN  e.shared =>
              /\ e.uid \in DOMAIN users
              /\ c \in DOMAIN users[e.uid].memberships
              /\ users[e.uid].memberships[c] = [uid |-> e.uid, prefix |-> e.prefix]

----------------------------------------------------------------------------
(* Store invariants *)

\* the channels a membership may name
MembershipNames(u) == ChannelNames \cup DOMAIN users[u].memberships

\* C1: after every command and public operation that completed, for every
\* user u in users and every channel name c, u.memberships[c] is defined
\* exactly when channels[c] exists and has an entry under u's nickname, and
\* the two are the same Member (same uid and prefix).
C1_MembershipMirror ==
    ~last.threw =>
      \A u \in DOMAIN users : \A c \in MembershipNames(u) :
        LET inUser == c \in DOMAIN users[u].memberships
            inChannel == /\ c \in DOMAIN channels
                         /\ users[u].nickname \in DOMAIN channels[c].users
        IN  /\ inUser <=> inChannel
            /\ inUser =>
                  LET m == users[u].memberships[c]
                      e == channels[c].users[users[u].nickname]
                  IN  m.uid = e.uid /\ m.prefix = e.prefix

\* the members of a stored channel: the entries of its users map whose user
\* is in the store
MembersOf(c) ==
    {n \in DOMAIN channels[c].users : channels[c].users[n].uid \in DOMAIN users}

\* C2: after every inbound command and every public operation, every channel
\* in the channels store has at least one member.
C2_NoEmptyChannel ==
    ~last.threw => \A c \in DOMAIN channels : MembersOf(c) # {}

\* the nickname index files every user under its nickname and nothing else
NickIndexExact ==
    /\ \A u \in DOMAIN users :
          /\ users[u].nickname \in DOMAIN usersByNick
          /\ usersByNick[users[u].nickname] = [uid |-> u, dead |-> FALSE]
    /\ \A n \in DOMAIN usersByNick :
          /\ ~usersByNick[n].dead
          /\ usersByNick[n].uid \in DOMAIN users
          /\ users[usersByNick[n].uid].nickname = n

\* C3 as claimed: after any sequence of UID, NICK, QUIT and registerUser,
\* usersByNick has exactly one entry for each user in users, under that
\* user's current nickname and pointing to that user, and no other entry.
C3_NickIndex == ~last.threw => NickIndexExact

\* C3 amended: the same, for sequences in which every UID and registerUser
\* introduces a uid that is not in users and every UID, NICK and
\* registerUser names a nickname that no other user in users holds.
C3_NickIndexUniqueNames == (protoOK /\ ~last.threw) => NickIndexExact

\* C3 witness: a user changed nickname while another user is in the store,
\* under distinct names all along.
C3_Witness ==
    /\ protoOK
    /\ last.op = "NICK"
    /\ ~last.threw
    /\ Cardinality(DOMAIN users) = 2
    /\ users[last.source].nickname = last.nickname

----------------------------------------------------------------------------
(* Reading an SJOIN line: what its tokens announce *)

\* the token announces a member: it is not empty and not a list token
IsMemberToken(tok) == tok # <<>> /\ Head(tok) \notin {"&", "\"", "'"}

\* the uid a member token ends with, and the rank symbols before it
TokenUid(tok) == tok[Len(tok)]

TokenPrefix(tok) == SubSeq(tok, 1, Len(tok) - 1)

\* the masks of the list tokens with the given marker, in line order
RECURSIVE AnnouncedMasks(_, _)
AnnouncedMasks(buf, marker) ==
    IF buf = <<>> THEN <<>>
    ELSE IF Head(buf) # <<>> /\ Head(Head(buf)) = marker
    THEN <<Head(buf)[2]>> \o AnnouncedMasks(Tail(buf), marker)
    ELSE AnnouncedMasks(Tail(buf), marker)

\* token k is the last member token of the line for its uid
LastForUid(buf, k) ==
    \A j \in (k + 1)..Len(buf) :
        IsMemberToken(buf[j]) => TokenUid(buf[j]) # TokenUid(buf[k])

\* token k is the last member token of the line for its user's nickname
LastForNick(buf, k) ==
    \A j \in (k + 1)..Len(buf) :
        IsMemberToken(buf[j]) =>
            users[TokenUid(buf[j])].nickname # users[TokenUid(buf[k])].nickname

\* after the step the channel holds, for every member token of the line, one
\* Member with the given prefix (or with the empty prefix when ranked is
\* FALSE), on the user's side and on the channel's side; a later token for
\* the same uid or the same nickname overwrites an earlier one
MembersInstalled(name, buf, ranked) ==
    \A k \in 1..Len(buf) :
        IsMemberToken(buf[k]) =>
            LET uid == TokenUid(buf[k])
                prefix == IF ranked THEN TokenPrefix(buf[k]) ELSE <<>>
            IN  /\ LastForUid(buf, k) =>
                      /\ name \in DOMAIN users'[uid].memberships
                      /\ users'[uid].memberships[name] =
                             [uid |-> uid, prefix |-> prefix]
                /\ LastForNick(buf, k) =>
                      /\ users[uid].nickname \in DOMAIN channels'[name].users
                      /\ channels'[name].users[users[uid].nickname] =
                             [uid |-> uid, prefix |-> prefix, shared |-> TRUE]

\* the flags of a mode string: its characters other than the leading "+"
FlagsOf(str) == Chars(str) \ {"+"}

NoRepeat(str) == \A i, j \in 1..Len(str) : str[i] = str[j] => i = j

\* C4: an SJOIN for a stored channel with a timestamp newer than the stored
\* one leaves the channel's modes as they were and installs every member of
\* the line with the empty prefix, whatever rank symbols its token carries;
\* the list tokens of the line are appended to the three lists.
C4_NewerBurst ==
    [][(/\ last'.op = "SJOIN"
        /\ ~last'.threw
        /\ last'.name \in DOMAIN channels
        /\ last'.timestamp > channels[last'.name].timestamp)
       => LET name == last'.name
              buf == last'.sjoinbuffer
              old == channels[name]
              new == channels'[name]
          IN  /\ new.modes = old.modes
              /\ new.timestamp = old.timestamp
              /\ MembersInstalled(name, buf, FALSE)
              /\ new.bans = old.bans \o AnnouncedMasks(buf, "&")
              /\ new.excepts = old.excepts \o AnnouncedMasks(buf, "\"")
              /\ new.inviteExcepts = old.inviteExcepts \o AnnouncedMasks(buf, "'")]_vars

\* C4 witness: a newer burst with a ranked member token and a ban token went
\* through; the member is in the channel without rank, the ban is listed and
\* the modes are not the announced ones.
C4_Witness ==
    /\ last.op = "SJOIN" /\ last.case = "newer" /\ ~last.threw
    /\ last.sjoinbuffer[1] = <<"@", "+", "001AAAAAA">>
    /\ last.sjoinbuffer[2] = <<"&", "m1">>
    /\ channels[last.name].modes # last.modes
    /\ users["001AAAAAA"].memberships[last.name].prefix = <<>>
    /\ \E k \in 1..Len(channels[last.name].bans) : channels[last.name].bans[k] = "m1"

\* C5: an SJOIN for a stored channel with the stored timestamp leaves the
\* channel with the union of the stored flags and the announced flags, each
\* flag once.
C5_EqualBurstUnion ==
    [][(/\ last'.op = "SJOIN"
        /\ last'.name \in DOMAIN channels
        /\ last'.timestamp = channels[last'.name].timestamp)
       => /\ FlagsOf(channels'[last'.name].modes) =
                 FlagsOf(channels[last'.name].modes) \cup FlagsOf(last'.modes)
          /\ NoRepeat(channels'[last'.name].modes)]_vars

\* C5 witness: an equal-timestamp burst announced "+tn" on a channel whose
\* modes were "+m"; the channel has the three flags.
C5_Witness ==
    /\ last.op = "SJOIN" /\ last.case = "equal"
    /\ last.had = <<"+", "m">>
    /\ last.modes = <<"+", "t", "n">>
    /\ FlagsOf(channels[last.name].modes) = {"m", "t", "n"}

\* C6: an SJOIN for a stored channel with a timestamp older than the stored
\* one leaves the channel's modes exactly as announced: no stored flag
\* survives unless the line announces it.
C6_OlderBurstReplaces ==
    [][(/\ last'.op = "SJOIN"
        /\ last'.name \in DOMAIN channels
        /\ last'.timestamp < channels[last'.name].timestamp)
       => channels'[last'.name].modes = last'.modes]_vars

\* C6 witness: an older burst announcing "+n" went through on a channel
\* that was created with "+tn".
C6_Witness ==
    /\ last.op = "SJOIN" /\ last.case = "older" /\ ~last.threw
    /\ last.modes = <<"+", "n">>
    /\ last.had = <<"+", "t", "n">>
    /\ channels[last.name].modes = <<"+", "n">>

\* C7: an SJOIN for a channel that is not in the store creates the channel
\* with the announced timestamp and modes and, for each member token,
\* installs one Member with the token's prefix, on the user's side and on
\* the channel's side.
C7_NewChannelBurst ==
    [][(/\ last'.op = "SJOIN"
        /\ ~last'.threw
        /\ last'.name \notin DOMAIN channels)
       => /\ last'.name \in DOMAIN channels'
          /\ channels'[last'.name].timestamp = last'.timestamp
          /\ channels'[last'.name].modes = last'.modes
          /\ MembersInstalled(last'.name, last'.sjoinbuffer, TRUE)]_vars

\* C7 witness: the user 999AAAAAA registered here was announced with the
\* token @999AAAAAA on a new channel and is its operator on both sides.
C7_Witness ==
    /\ last.op = "SJOIN" /\ last.case = "new" /\ ~last.threw
    /\ last.sjoinbuffer = <<<<"@", "999AAAAAA">>>>
    /\ users["999AAAAAA"].memberships[last.name] =
           [uid |-> "999AAAAAA", prefix |-> <<"@">>]
    /\ channels[last.name].users[users["999AAAAAA"].nickname] =
           [uid |-> "999AAAAAA", prefix |-> <<"@">>, shared |-> TRUE]
    /\ channels[last.name].timestamp = last.timestamp

----------------------------------------------------------------------------
(* Reading a MODE line: what its mode token and arguments announce *)

\* the letters of a mode token that stand under the sign want
RECURSIVE SignedLetters(_, _, _)
SignedLetters(str, sign, want) ==
    IF str = <<>> THEN {}
    ELSE IF Head(str) \in {"+", "-"} THEN SignedLetters(Tail(str), Head(str), want)
    ELSE (IF sign = want THEN {Head(str)} ELSE {})
         \cup SignedLetters(Tail(str), sign, want)

\* the boolean flags a mode token adds and removes
AddedFlags(modes) == SignedLetters(modes, "+", "+") \ (RankModes \cup ListModes)

RemovedFlags(modes) == SignedLetters(modes, "+", "-") \ (RankModes \cup ListModes)

\* the first argument of a MODE line, after the timestamp a server appends;
\* "" when there is none
ModeMember(rec) ==
    LET a == IF rec.source \in UIDs THEN rec.args
             ELSE SubSeq(rec.args, 1, Len(rec.args) - 1)
    IN  IF a = <<>> THEN "" ELSE a[1]

\* the mode token names boolean flags only
FlagsOnly(modes) ==
    (SignedLetters(modes, "+", "+") \cup SignedLetters(modes, "+", "-"))
        \cap (RankModes \cup ListModes) = {}

\* C8: a channel MODE on boolean flags whose add part names the flags A and
\* whose remove part names the flags R turns the channel's flag set F into
\* (F union A) minus R; the flags the channel had and the MODE does not
\* mention are kept.
C8_ModeFlagAlgebra ==
    [][(/\ last'.op = "MODE"
        /\ ~last'.threw
        /\ FlagsOnly(last'.modes)
        /\ last'.target \in DOMAIN channels)
       => FlagsOf(channels'[last'.target].modes) =
              (FlagsOf(channels[last'.target].modes) \cup AddedFlags(last'.modes))
                  \ RemovedFlags(last'.modes)]_vars

\* "+" followed by flag characters: no further "+", no "-", no rank or list
\* mode letter, no character twice
WellFormedModes(str) ==
    /\ str # <<>>
    /\ Head(str) = "+"
    /\ \A k \in 2..Len(str) : str[k] \notin {"+", "-"} \cup RankModes \cup ListModes
    /\ NoRepeat(str)

\* C9: after any sequence of SJOIN and MODE commands, every stored channel
\* mode string is one leading "+" followed by flag characters, with no
\* further "+", no "-", no rank or list mode letter and no repeated character.
C9_ModeStringFormat ==
    \A c \in DOMAIN channels : WellFormedModes(channels[c].modes)

\* C10: for every channel member, every rank mode m and every prefix the
\* member holds, MODE +m <member> followed by MODE -m <member> leaves the
\* member's prefix equal to its value before the grant.
C10_RankRoundTrip ==
    [][\A m \in RankModes :
        (/\ last.op = "MODE" /\ ~last.threw
         /\ last.modes = <<"+", m>>
         /\ ModeMember(last) \in DOMAIN last.before
         /\ last'.op = "MODE" /\ ~last'.threw
         /\ last'.modes = <<"-", m>>
         /\ last'.target = last.target
         /\ ModeMember(last') = ModeMember(last))
        => /\ ModeMember(last) \in DOMAIN channels'[last.target].users
           /\ channels'[last.target].users[ModeMember(last)].prefix =
                  last.before[ModeMember(last)]]_vars

----------------------------------------------------------------------------
(* List modes *)

\* the entries of a list other than x, in their order
Without(list, x) == SelectSeq(list, LAMBDA entry : entry # x)

\* the list of a channel that a list mode letter names
ListFor(ch, letter) ==
    CASE letter = "b" -> ch.bans
      [] letter = "e" -> ch.excepts
      [] letter = "I" -> ch.inviteExcepts

\* C11: MODE -b, -e or -I with argument x removes every entry equal to x from
\* the list the letter names and keeps the other entries in their order, and
\* leaves the other two lists alone; MODE +b x followed by MODE -b x on a
\* channel whose ban list was empty leaves the ban list empty, whether the
\* lines come from a user or from a server (trailing timestamp).
C11_ListRemoval ==
    [][(/\ last'.op = "MODE" /\ ~last'.threw
        /\ last'.target \in DOMAIN channels
        /\ ModeMember(last') # "")
       => LET old == channels[last'.target]
              new == channels'[last'.target]
              x == ModeMember(last')
          IN  /\ \A letter \in ListModes :
                    ListFor(new, letter) =
                        IF last'.modes = <<"-", letter>>
                        THEN Without(ListFor(old, letter), x)
                        ELSE IF last'.modes = <<"+", letter>>
                        THEN Append(ListFor(old, letter), x)
                        ELSE ListFor(old, letter)
              /\ (/\ last.op = "MODE" /\ ~last.threw
                  /\ last.modes = <<"+", "b">> /\ last'.modes = <<"-", "b">>
                  /\ last.target = last'.target
                  /\ ModeMember(last) = x
                  /\ last.lists.bans = <<>>)
                 => new.bans = <<>>]_vars

\* C11 witness: a server-sourced MODE -b x went through on a ban list that
\* held x, y, x; the list is y.
C11_Witness ==
    /\ last.op = "MODE" /\ ~last.threw
    /\ last.source = "001"
    /\ last.modes = <<"-", "b">>
    /\ last.args = <<"x", "1700">>
    /\ last.lists.bans = <<"x", "y", "x">>
    /\ channels[last.target].bans = <<"y">>

----------------------------------------------------------------------------
(* Leaving and renaming *)

\* the users that the entries of a stored channel name
UidsIn(c) == {channels[c].users[n].uid : n \in DOMAIN channels[c].users}

\* the user that a PART or KICK record makes leave
Leaver(rec) == IF rec.op = "PART" THEN rec.source ELSE rec.target

\* C12: whatever commands preceded, NICK changes of its members included,
\* after a PART by the last member of a channel or a KICK of its last member
\* the channel is absent from the channels store.
C12_LastMemberLeaves ==
    [][(/\ last'.op \in {"PART", "KICK"} /\ ~last'.threw
        /\ last'.channel \in DOMAIN channels
        /\ Leaver(last') \in DOMAIN users
        /\ last'.channel \in DOMAIN users[Leaver(last')].memberships
        /\ UidsIn(last'.channel) = {Leaver(last')})
       => last'.channel \notin DOMAIN channels']_vars

\* C13: after NICK changes user u's nickname from a to b, every channel u is
\* a member of holds u's Member under key b and has no entry left under key
\* a in its users map.
C13_NickRekeysChannels ==
    [][(/\ last'.op = "NICK" /\ ~last'.threw
        /\ users[last'.source].nickname # last'.nickname)
       => LET u == last'.source
              a == users[u].nickname
              b == last'.nickname
          IN  \A c \in DOMAIN users[u].memberships \cap DOMAIN channels :
                (/\ a \in DOMAIN channels[c].users
                 /\ channels[c].users[a].uid = u)
                => /\ c \in DOMAIN channels'
                   /\ b \in DOMAIN channels'[c].users
                   /\ channels'[c].users[b].uid = u
                   /\ channels'[c].users[b].prefix = users[u].memberships[c].prefix
                   /\ a \notin DOMAIN channels'[c].users]_vars

\* C14: after an inbound QUIT from user u, and likewise after an inbound
\* KILL naming the target user u, u is absent from users and u's nickname is
\* absent from usersByNick.
C14_UserDestroyed ==
    [][(\/ /\ last'.op = "QUIT" /\ ~last'.threw
        \/ /\ last'.op = "KILL"
           /\ last'.target \in DOMAIN users)
       => LET u == IF last'.op = "QUIT" THEN last'.source ELSE last'.target
          IN  /\ u \notin DOMAIN users'
              /\ users[u].nickname \notin DOMAIN usersByNick']_vars

\* the SJOIN lines in a write queue
SJoinLines(queue) == SelectSeq(queue, LAMBDA line : line.cmd = "SJOIN")

\* C15: after an inbound SAJOIN of a local user into a channel that is not in
\* the store, the channel is in the channels store with that user as a
\* member, the user's memberships hold the channel with the same Member, and
\* one SJOIN line for it has been enqueued.
C15_SajoinCreatesChannel ==
    [][(/\ last'.op = "SAJOIN" /\ ~last'.threw
        /\ last'.target \in DOMAIN users
        /\ users[last'.target].local
        /\ last'.channel \notin DOMAIN channels)
       => LET u == last'.target
              c == last'.channel
              n == users[u].nickname
          IN  /\ c \in DOMAIN channels'
              /\ n \in DOMAIN channels'[c].users
              /\ c \in DOMAIN users'[u].memberships
              /\ channels'[c].users[n].uid = u
              /\ users'[u].memberships[c].uid = u
              /\ channels'[c].users[n].prefix = users'[u].memberships[c].prefix
              /\ Len(writebuffer') = Len(writebuffer) + 1
              /\ Len(SJoinLines(writebuffer')) = Len(SJoinLines(writebuffer)) + 1
              /\ writebuffer'[Len(writebuffer')].arg = c]_vars

\* sjoinToChannel rejects the k-th member: its uid is not in users, or the
\* user has a membership in the channel, from before the call or from an
\* earlier place in the same list
Rejected(name, members, k) ==
    \/ members[k].uid \notin DOMAIN users
    \/ name \in DOMAIN users[members[k].uid].memberships
    \/ \E j \in 1..(k - 1) : members[j].uid = members[k].uid

\* C16: sjoinToChannel fails with an error if a given member's uid is not in
\* the users store or if that user already has a membership in the target
\* channel; when every member is registered and not yet in the channel it
\* succeeds and enqueues exactly one SJOIN line.
C16_SjoinToChannelErrors ==
    [][last'.op = "sjoinToChannel"
       => LET rejects == \E k \in 1..Len(last'.members) :
                             Rejected(last'.name, last'.members, k)
          IN  /\ last'.threw <=> rejects
              /\ ~rejects =>
                    /\ Len(writebuffer') = Len(writebuffer) + 1
                    /\ writebuffer'[Len(writebuffer')].cmd = "SJOIN"
                    /\ writebuffer'[Len(writebuffer')].arg = last'.name]_vars

\* C16 witness: sjoinToChannel failed on a member that was already in the
\* channel, with both users registered.
C16_Witness ==
    /\ last.op = "sjoinToChannel" /\ last.threw
    /\ Len(last.members) = 1
    /\ last.members[1].uid \in DOMAIN users
    /\ last.name \in DOMAIN users[last.members[1].uid].memberships
    /\ writebuffer # <<>>

----------------------------------------------------------------------------
(* Framing *)

\* the positions in a byte stream where a CR LF terminator starts
Terminators(str) ==
    {k \in 1..(Len(str) - 1) : str[k] = "\r" /\ str[k + 1] = "\n"}

\* the position after the last terminator before position k
LineStart(str, k) ==
    LET before == {t \in Terminators(str) : t < k}
    IN  IF before = {} THEN 1
        ELSE (CHOOSE t \in before : \A o \in before : o <= t) + 2

\* the terminated lines of a byte stream, in order
RECURSIVE LinesUpTo(_, _)
LinesUpTo(str, k) ==
    IF k = 0 THEN <<>>
    ELSE IF k \in Terminators(str)
    THEN Append(LinesUpTo(str, k - 1), SubSeq(str, LineStart(str, k), k - 1))
    ELSE LinesUpTo(str, k - 1)

TerminatedLines(str) == LinesUpTo(str, Len(str))

\* C17: for any sequence of CRLF-terminated lines and any way of cutting the
\* byte stream into chunks, the lines delivered to the dispatcher are exactly
\* the terminated lines received so far: every line once, in order,
\* byte-identical, and no other line, in particular no extra empty line.
C17_FramerExact == delivered = TerminatedLines(received)

----------------------------------------------------------------------------
(* Handshake *)

\* the lines of a write queue that are the end-of-sync reply
ReplyLines(queue) ==
    SelectSeq(queue, LAMBDA line : line.cmd \in {"EOS", "NETINFO"})

\* C18: if the registered callback returned true when the peer's SERVER line
\* was handled, the engine enqueues no EOS and no NETINFO line on receipt of
\* NETINFO or of any other inbound line, until the application calls
\* endOfSync, which enqueues EOS followed by the NETINFO echo.
C18_DeferredSync ==
    [][/\ (last'.op = "SERVER" /\ last'.returned = "true") => blockEOS' = "true"
       /\ (blockEOS = "true" /\ last'.op # "endOfSync")
          => /\ ReplyLines(writebuffer') = ReplyLines(writebuffer)
             /\ last'.op # "SERVER" => blockEOS' = "true"
       /\ last'.op = "endOfSync"
          => /\ Len(writebuffer') = Len(writebuffer) + 2
             /\ SubSeq(writebuffer', 1, Len(writebuffer)) = writebuffer
             /\ writebuffer'[Len(writebuffer) + 1].cmd = "EOS"
             /\ writebuffer'[Len(writebuffer) + 2].cmd = "NETINFO"]_vars

\* C18 witness: the callback returned true, NETINFO came and queued nothing,
\* then the application called endOfSync and the two lines are queued.
C18_Witness ==
    /\ last.op = "endOfSync"
    /\ blockEOS = "true"
    /\ events = <<"registered", "sync">>
    /\ Len(writebuffer) = 2
    /\ writebuffer[1].cmd = "EOS"
    /\ writebuffer[2].cmd = "NETINFO"

\* the number of sync events raised
SyncCount(evs) == Len(SelectSeq(evs, LAMBDA e : e = "sync"))

\* C19: on receipt of NETINFO the end-of-sync reply and the sync event are
\* produced only if sync is not deferred: when the application has deferred
\* end-of-sync, NETINFO raises no sync event.
C19_NoSyncEventWhenDeferred ==
    [][(last'.op = "NETINFO" /\ blockEOS = "true")
       => /\ ReplyLines(writebuffer') = ReplyLines(writebuffer)
          /\ SyncCount(events') = SyncCount(events)]_vars

\* C20: for every order of inbound lines, the engine neither enqueues its
\* EOS and NETINFO reply nor raises the sync event on an inbound line before
\* the peer's SERVER line has been received and the registered event raised.
C20_HandshakeOrder ==
    [][(/\ last'.op # "endOfSync"
        /\ \A k \in 1..Len(events') : events'[k] # "registered")
       => /\ ReplyLines(writebuffer') = ReplyLines(writebuffer)
          /\ SyncCount(events') = SyncCount(events)]_vars

----------------------------------------------------------------------------
(* Claims on the session *)

RECURSIVE SentLines(_)
\* the lines handed to the socket while it was open, in order
SentLines(writes) ==
    IF writes = <<>> THEN <<>>
    ELSE (IF Head(writes).ended THEN <<>> ELSE Head(writes).data)
         \o SentLines(Tail(writes))

\* C21: disconnect(reason, graceful) on a connected client has the SQUIT
\* line written to the transport before the transport is closed, and when
\* graceful a QUIT line of every user whose uid starts with the local SID
\* before that SQUIT line; when not graceful no QUIT line comes with it.
C21_DisconnectOrdering ==
    [][(last'.op = "disconnect" /\ conn = "connected" /\ ~destroyed)
       => LET sent == SentLines(socketWrites')
              n == Len(sent)
              quits == {k \in 1..Len(sent) :
                          /\ sent[k].cmd = "QUIT"
                          /\ sent[k].arg = "Server Shutting Down."}
          IN  /\ n > 0
              /\ sent[n].cmd = "SQUIT"
              /\ last'.graceful =>
                   \A uid \in DOMAIN users :
                      startsWithSid(uid) =>
                         \E k \in quits : sent[k].prefix = uid
              /\ ~last'.graceful => quits = {}]_vars

\* the inbound lines and chunks of the harnesses
InboundOps ==
    {"data", "PING", "NETINFO", "SERVER", "UID", "NICK", "QUIT", "SJOIN", "PART",
     "KICK", "KILL", "SAJOIN", "SAPART", "MODE", "UMODE2"}

\* C22: on a destroyed client an inbound chunk or line raises no event (the
\* raw-line event included), changes no entry of users, usersByNick or
\* channels, queues nothing and leaves the carry-over buffer alone; when the
\* client is destroyed while a chunk is dispatched, the lines of the chunk
\* after the one being dispatched raise no raw-line event.
C22_DestroyedDropsInbound ==
    [][/\ (destroyed /\ last'.op \in InboundOps)
          => /\ users' = users
             /\ usersByNick' = usersByNick
             /\ channels' = channels
             /\ writebuffer' = writebuffer
             /\ buffer' = buffer
             /\ delivered' = delivered
             /\ events' = events
             /\ blockEOS' = blockEOS
             /\ raised' = <<>>
       /\ last'.op = "dataDisconnect"
          => Len(delivered') = Len(delivered) + last'.stop]_vars

\* a UID line arrived on a destroyed client whose queue holds the SQUIT line
C22_Witness ==
    /\ destroyed
    /\ last.op = "UID"
    /\ writebuffer # <<>>

\* C23: on a destroyed client the writer task calls _socket.write no more:
\* what the queue holds, and what is queued later, is handed to the
\* transport by no iteration of the writer.
C23_DestroyedNoWrite ==
    [][(destroyed /\ last'.op = "writer") => socketWrites' = socketWrites]_vars

\* the commands of sourced lines
SourcedOps ==
    {"UID", "NICK", "QUIT", "SJOIN", "PART", "KICK", "KILL", "SAJOIN", "SAPART",
     "MODE", "UMODE2"}

\* C24: every inbound sourced line whose handler does not throw, the lines
\* of commands with a dedicated handler included, raises the any-command
\* event exactly once.
C24_AnyCommandOnce ==
    [][(last'.op \in SourcedOps /\ ~last'.threw)
       => raised' = <<[event |-> "command"]>>]_vars

\* the sequence without its k-th entry
DropAt(seq, k) == SubSeq(seq, 1, k - 1) \o SubSeq(seq, k + 1, Len(seq))

\* C25: an inbound PING with token t adds exactly one entry to the queue, a
\* PONG that echoes t, and leaves the entries the queue held as they were;
\* it raises the ping event once, with t, and changes no entry of users,
\* usersByNick or channels.
C25_PingPong ==
    [][(last'.op = "PING" /\ ~destroyed)
       => /\ \E k \in 1..Len(writebuffer') :
                /\ writebuffer'[k].cmd = "PONG"
                /\ writebuffer'[k].arg = last'.token
                /\ DropAt(writebuffer', k) = writebuffer
          /\ raised' = <<[event |-> "ping", token |-> last'.token]>>
          /\ users' = users
          /\ usersByNick' = usersByNick
          /\ channels' = channels]_vars

\* a PING was answered while the queue held a line of the application
C25_Witness ==
    /\ last.op = "PING"
    /\ raised # <<>>
    /\ Len(writebuffer) > 1

\* C26: every entry of the write queue is one line terminated by CRLF, and
\* so is every entry handed to the transport by a write.
C26_LinesTerminated ==
    /\ \A k \in 1..Len(writebuffer) : writebuffer[k].crlf
    /\ \A w \in 1..Len(socketWrites) :
          \A k \in 1..Len(socketWrites[w].data) : socketWrites[w].data[k].crlf

\* the credential material the configured auth method needs is missing
CredentialMissing(o) ==
    \/ o.authMethod = "spkifp" /\ (~o.keyPath \/ ~o.certPath)
    \/ o.authMethod = "pass" /\ ~o.password

\* C27: connect() on a client whose options lack the credential material of
\* the configured auth method throws, opens no transport and queues nothing.
C27_ConnectRequiresCredentials ==
    [][(last'.op = "connect" /\ CredentialMissing(options))
       => /\ last'.threw
          /\ conn' = "new"
          /\ writebuffer' = writebuffer]_vars

----------------------------------------------------------------------------
(* Claims on the mode decoders *)

\* the flag sets a decoder is started from: none, and every flag letter
FlagSeeds == {<<>>, <<"m", "n">>}

\* the channel MODE decoder on flag letters: the loop over the add part and
\* then the loop over the remove part, from the flags keys
ModeDecode(keys, modes) ==
    LET st0 == [users |-> EmptyMap, channel |-> NewChannel(1, <<"+">>),
                args |-> <<>>, newModes |-> keys, threw |-> FALSE]
        st1 == addLoop(st0, "#x", addPart(modes))
    IN  removeLoop(st1, "#x", removePart(modes)).newModes

\* C28: a mode token of signs and flag letters adds the same flags and
\* removes the same flags under the channel MODE decoder and under the
\* UMODE2 decoder: from no flag and from every flag both leave the same set.
C28_DecodersAgree ==
    [][(last'.op \in {"MODE", "UMODE2"} /\ ~last'.threw)
       => \A keys \in FlagSeeds :
             Chars(ModeDecode(keys, last'.modes)) =
                 Chars(umodeLoop(keys, last'.modes, TRUE))]_vars

----------------------------------------------------------------------------
(* Claims on the handshake and the framer *)

\* C29: whatever was queued before or during connect, the first lines
\* written to the connected transport are PASS (with '*' under certificate
\* auth, the password under password auth), the three PROTOCTL lines
\* (extension list, TS, EAUTH/SID) and SERVER, in this order.
C29_HandshakeFirst ==
    LET sent == SentLines(socketWrites)
    IN  sent # <<>>
        => /\ Len(sent) >= 5
           /\ sent[1].cmd = "PASS"
           /\ options.authMethod = "spkifp" => sent[1].arg = "*"
           /\ (options.authMethod = "pass" /\ options.password)
                 => sent[1].arg = "password"
           /\ sent[2].cmd = "PROTOCTL" /\ sent[2].arg = "NOQUIT"
           /\ sent[3].cmd = "PROTOCTL" /\ sent[3].arg = "TS"
           /\ sent[4].cmd = "PROTOCTL" /\ sent[4].arg = "EAUTH"
           /\ sent[5].cmd = "SERVER"

\* the bytes of a stream after its last terminator
Fragment(str) == SubSeq(str, LineStart(str, Len(str) + 1), Len(str))

\* the lines that hold at least one byte
NonEmpty(lines) == SelectSeq(lines, LAMBDA line : line # <<>>)

\* C30: the bytes received after the last CRLF are not delivered: they are
\* the carry-over buffer, which the next chunk is appended to, and the lines
\* of at least one byte delivered so far are those whose terminator has
\* arrived.
C30_FragmentCarriedOver ==
    /\ buffer = Fragment(received)
    /\ NonEmpty(delivered) = NonEmpty(TerminatedLines(received))

\* the line a was cut inside its terminator and completed by a chunk that
\* leaves the fragment b behind
C30_Witness ==
    /\ last.op = "data"
    /\ last.data = <<LF, "b">>
    /\ received = <<"a", CR, LF, "b">>
    /\ delivered = <<<<"a">>>>
    /\ buffer = <<"b">>

----------------------------------------------------------------------------
(* Claims on the consistency of the store *)

\* C35: every member a channel lists in its users map has a uid that is in
\* users; after the QUIT of a user no channel lists that user.
C35_NoDanglingMembers ==
    ~crashed =>
       \A c \in DOMAIN channels :
          \A n \in DOMAIN channels[c].users :
             channels[c].users[n].uid \in DOMAIN users

\* C36: a call of sjoinToChannel that rejects a member leaves the channels
\* store, every user's memberships and the write queue as they were, also
\* when members listed before the rejected one were valid.
C36_SjoinToChannelAtomic ==
    [][(last'.op = "sjoinToChannel" /\ last'.threw)
       => /\ channels' = channels
          /\ \A uid \in DOMAIN users :
                /\ uid \in DOMAIN users'
                /\ users'[uid].memberships = users[uid].memberships
          /\ writebuffer' = writebuffer]_vars

\* C37: an inbound SJOIN that fails on a uid absent from users applies
\* nothing of the burst: the channels store, with the modes and the three
\* lists of the channel, and the memberships of every user are unchanged.
C37_SjoinFailsWhole ==
    [][(last'.op = "SJOIN" /\ last'.threw)
       => /\ channels' = channels
          /\ users' = users]_vars

\* C38: an inbound SJOIN for a channel the store holds leaves the stored
\* timestamp of that channel as it was, whether the announced timestamp is
\* equal, older or newer.
C38_TimestampFixed ==
    [][(last'.op = "SJOIN" /\ last'.name \in DOMAIN channels)
       => /\ last'.name \in DOMAIN channels'
          /\ channels'[last'.name].timestamp = channels[last'.name].timestamp]_vars

\* an older burst went through on a stored channel
C38_Witness ==
    /\ last.op = "SJOIN" /\ last.case = "older" /\ ~last.threw
    /\ last.name \in DOMAIN channels
    /\ channels[last.name].timestamp > last.timestamp

\* C39: an inbound SJOIN with a newer timestamp changes the prefix of no
\* user who was a member of the channel before the burst, on the channel's
\* side and on the user's side, also when the burst names that user.
C39_NewerBurstKeepsPrefixes ==
    [][(last'.op = "SJOIN" /\ last'.case = "newer" /\ ~last'.threw)
       => \A n \in DOMAIN channels[last'.name].users :
             LET uid == channels[last'.name].users[n].uid
             IN  /\ n \in DOMAIN channels'[last'.name].users
                 /\ channels'[last'.name].users[n].prefix =
                        channels[last'.name].users[n].prefix
                 /\ (uid \in DOMAIN users /\ last'.name \in DOMAIN users[uid].memberships)
                       => users'[uid].memberships[last'.name].prefix =
                              users[uid].memberships[last'.name].prefix]_vars

----------------------------------------------------------------------------
(* Claims on the writer task *)

\* the operations that run an iteration of the writer
WriterOps == {"writer", "connected"}

\* what the queue holds when the iteration starts: the connect callback
\* queues the handshake first
QueueAtIteration ==
    IF last'.op = "connected" THEN handshake(Store, options).wb ELSE writebuffer

\* C31: an iteration of the writer takes at most 64 entries from the head
\* of the queue, in queue order, leaves the rest, and hands what it took to
\* the transport in exactly one write; on an empty queue it writes nothing.
C31_WriterBatch ==
    [][last'.op \in WriterOps
       => LET queue == QueueAtIteration
          IN  \E n \in 0..WriterBatch :
                 /\ n <= Len(queue)
                 /\ writebuffer' = SubSeq(queue, n + 1, Len(queue))
                 /\ IF queue = <<>>
                    THEN socketWrites' = socketWrites
                    ELSE /\ Len(socketWrites') = Len(socketWrites) + 1
                         /\ SubSeq(socketWrites', 1, Len(socketWrites))
                               = socketWrites
                         /\ socketWrites'[Len(socketWrites')].data
                               = SubSeq(queue, 1, n)]_vars

\* the writer met a queue of more than 64 entries: it wrote 64 and left
\* the rest
C31_Witness ==
    /\ last.op = "writer"
    /\ socketWrites # <<>>
    /\ Len(socketWrites[Len(socketWrites)].data) = WriterBatch
    /\ writebuffer # <<>>

\* the longer and the shorter of the two waits of the writer
LongWait == IF BackoffBusy > BackoffIdle THEN BackoffBusy ELSE BackoffIdle

ShortWait == IF BackoffBusy > BackoffIdle THEN BackoffIdle ELSE BackoffBusy

\* C32 as stated: after an iteration of the writer the wait is the longer
\* one when the queue drained to empty and the shorter one when entries
\* remain.
C32_BackoffAsStated ==
    [][last'.op \in WriterOps
       => last'.wait = IF writebuffer' = <<>> THEN LongWait ELSE ShortWait]_vars

\* C32: after an iteration of the writer the wait before the next one is
\* the longer fixed backoff when entries remain in the queue and the much
\* shorter one when the queue drained to empty.
C32_BackoffSelection ==
    [][last'.op \in WriterOps
       => last'.wait = IF writebuffer' = <<>> THEN ShortWait ELSE LongWait]_vars

\* an iteration left entries in the queue and chose the wait of 100 ms
C32_Witness ==
    /\ last.op = "writer"
    /\ writebuffer # <<>>
    /\ last.wait = BackoffBusy


\* ---------------------------------------------------------------------------
\* Claims on the end of the session
\* ---------------------------------------------------------------------------

\* the number of times the disconnected callback has run
Disconnections == Cardinality({k \in 1..Len(events) : events[k] = "disconnected"})

\* C40: the disconnected event is raised at most once in a session, in every
\* order of disconnect(), the transport's end and the transport's error.
C40_DisconnectedOnce == Disconnections <= 1


\* the entries handed to the transport, in the order of the writes
RECURSIVE Written(_)
Written(writes) ==
    IF writes = <<>> THEN <<>> ELSE Head(writes).data \o Written(Tail(writes))

\* the entries of a sequence that writeRaw queued: all but the PONG replies
ByWriteRaw(entry) == entry.crlf

Enqueued(entries) == SelectSeq(entries, ByWriteRaw)

\* the lines of writeRaw in the order of their writing: the written ones,
\* then the ones the writer will take, in the order it will take them
WriteOrder(writes, queue) == Enqueued(Written(writes) \o queue)

\* C33: lines queued through writeRaw are written in the order they were
\* queued.  Every step leaves the order of writing of the lines queued so
\* far as it was and puts the lines it queues after them, whether it is an
\* iteration of the writer, a PING in between or a further call of writeRaw.
C33_FifoWriteOrder ==
    [][LET old == WriteOrder(socketWrites, writebuffer)
           new == WriteOrder(socketWrites', writebuffer')
       IN  /\ Len(old) <= Len(new)
           /\ SubSeq(new, 1, Len(old)) = old
           /\ last'.op = "writeRaw"
                => /\ Len(new) = Len(old) + last'.count
                   /\ \A k \in 1..last'.count :
                         new[Len(old) + k].arg = k]_vars

\* more lines than one batch were queued, a PING was handled between two
\* iterations of the writer, and the second iteration wrote the PONG and
\* the lines the first one had left
C33_Witness ==
    /\ last.op = "writer"
    /\ Len(socketWrites) >= 3
    /\ Len(socketWrites[Len(socketWrites) - 1].data) = WriterBatch
    /\ LET data == socketWrites[Len(socketWrites)].data
       IN  /\ Len(data) >= 2
           /\ data[1].cmd = "PONG"
           /\ data[2].cmd = "RAW"
    /\ writebuffer = <<>>


\* ---------------------------------------------------------------------------
\* Progress of the writer on a connection that stays open
\* ---------------------------------------------------------------------------

\* lines the application has queued and the writer has not taken yet
MaxPending == 2

\* entries the queue holds at most: one batch of PONG replies and the
\* pending lines behind it
MaxQueue == WriterBatch + MaxPending

\* the line writeRaw queues for the k-th line of the application
RawLine(k) == writeRawLines([wb |-> <<>>], k, k).wb[1]

Queued(line) == \E i \in 1..Len(writebuffer) : writebuffer[i] = line

\* writeRaw on the open connection, at any time and any number of times
LiveWriteRaw(k) ==
    /\ ~crashed
    /\ conn = "connected"
    /\ Len(SelectSeq(writebuffer, LAMBDA e : e.crlf)) < MaxPending
    /\ ~Queued(RawLine(k))
    /\ writebuffer' = writeRawLines(Store, k, k).wb
    /\ last' = [op |-> "writeRaw", line |-> k, threw |-> FALSE]
    /\ raised' = <<>>
    /\ UNCHANGED <<users, usersByNick, channels, crashed, protoOK, steps,
                   buffer, received, delivered, blockEOS, events, options,
                   conn, socketEnded, socketWrites, destroyed>>

\* a PING of the peer on the open connection, at any time and any number of
\* times
LivePING(token) ==
    /\ ~crashed
    /\ conn = "connected"
    /\ Len(writebuffer) < MaxQueue
    /\ writebuffer' = unlessDestroyed(destroyed, writebuffer,
                                      HandlePING(Store, token).wb)
    /\ raised' = unlessDestroyed(destroyed, <<>>,
                                 <<[event |-> "ping", token |-> token]>>)
    /\ last' = [op |-> "PING", token |-> token, threw |-> FALSE]
    /\ UNCHANGED <<users, usersByNick, channels, crashed, protoOK, steps,
                   buffer, received, delivered, blockEOS, events, options,
                   conn, socketEnded, socketWrites, destroyed>>

\* one iteration of the writer task.  The run has no end, so of the writes
\* of the transport the latest one is kept, and of its entries the lines of
\* writeRaw.
LiveWriter ==
    /\ ~crashed
    /\ conn = "connected"
    /\ LET w == writerStep(writebuffer, <<>>, socketEnded)
       IN  /\ writebuffer' = w.wb
           /\ socketWrites' =
                 IF w.writes = <<>> THEN socketWrites
                 ELSE <<[w.writes[1] EXCEPT
                           !.data = SelectSeq(@, LAMBDA e : e.crlf)]>>
           /\ last' = [op |-> "writer", wait |-> writerBackoff(w.wb),
                       threw |-> FALSE]
    /\ raised' = <<>>
    /\ UNCHANGED <<users, usersByNick, channels, crashed, protoOK, steps,
                   buffer, received, delivered, blockEOS, events, options,
                   conn, socketEnded, destroyed>>

LiveLines == 1..2

LiveToken == ":t1"

NextLive ==
    \/ connect
    \/ Connected
    \/ LiveWriter
    \/ \E k \in LiveLines : LiveWriteRaw(k)
    \/ LivePING(LiveToken)

\* the timers of _startWriter keep firing: an iteration that is due happens
SpecLive == Init /\ [][NextLive]_vars /\ WF_vars(LiveWriter)

\* the same connection with a peer that sends no PING
NextLiveQuiet ==
    \/ connect
    \/ Connected
    \/ LiveWriter
    \/ \E k \in LiveLines : LiveWriteRaw(k)

SpecLiveQuiet == Init /\ [][NextLiveQuiet]_vars /\ WF_vars(LiveWriter)

\* the latest write of the transport carried the line
JustWritten(line) ==
    /\ socketWrites # <<>>
    /\ \E i \in 1..Len(socketWrites[Len(socketWrites)].data) :
          socketWrites[Len(socketWrites)].data[i] = line

\* C34: on a connection that stays open, with the writer task scheduled
\* under weak fairness, every line queued is eventually written to the
\* transport, while the application keeps queuing lines and the peer keeps
\* sending PINGs.
C34_EveryLineWritten ==
    \A k \in LiveLines :
       (conn = "connected" /\ Queued(RawLine(k)))
          ~> (JustWritten(RawLine(k)) /\ ~Queued(RawLine(k)))

============================================================================
